---- MODULE Spec2Model ----
(***************************************************************************)
(* TrendWise backend: the trend aggregator (TrendService), the batch       *)
(* article generator (OpenAIService.generateMultipleArticles and           *)
(* ArticleService.generateArticlesFromTrends), the persistence step        *)
(* (ArticleService.createArticle on the Article collection) and the        *)
(* /api/trends router with its process-wide trendsCache.                   *)
(*                                                                         *)
(* Strings are sequences of one-character strings, so that lowercasing,    *)
(* trimming, edit distance and regular-expression search are computed      *)
(* character by character as the JavaScript does.                          *)
(***************************************************************************)
EXTENDS Integers, Sequences, FiniteSets, TLC

VARIABLES
    browser,      \* TrendService.browser: TRUE when a puppeteer handle is held
    aggCall,      \* the last getAllTrends call made on the service: inputs and outcome
    trendsCache,  \* routes/trends.js trendsCache: populated is (data !== null), and
                  \* timestamp 0 stands for null (both are falsy)
    now,          \* Date.now(), in minutes
    lastResp,     \* the last response of the /api/trends router
    store,        \* the Article collection: sequence of persisted records
    run,          \* the batch generation run in progress (or finished)
    lastCreate,   \* the last createArticle call: input and outcome
    genCall,      \* a generateArticle call: trend, backend replies and outcome
    slugCall,     \* a generateSlug call: title and slug
    calls,        \* getAllTrends calls in progress, await by await: position and locals
    thisBrowser,  \* this.browser in the await-by-await specifications: 0 is null,
                  \* otherwise the number of the launched browser
    browsers,     \* the browsers puppeteer.launch has started: "open" or "closed"
    requests      \* requests to the router in progress, await by await

\* the variables of the await-by-await specifications
stepVars == <<calls, thisBrowser, browsers, requests>>

vars == <<browser, aggCall, trendsCache, now, lastResp, store, run, lastCreate,
          genCall, slugCall, stepVars>>

\* no call or request is being followed await by await
StepIdle == calls = <<>> /\ thisBrowser = 0 /\ browsers = <<>> /\ requests = <<>>

\* the variables the request-level specifications leave alone
pureVars == <<genCall, slugCall, stepVars>>

\* no generateArticle or generateSlug call is being observed
PureIdle == genCall = [done |-> FALSE] /\ slugCall = [done |-> FALSE] /\ StepIdle

-----------------------------------------------------------------------------
(* Bounds of the model *)

\* longest raw output one source adapter returns in the aggregation specification
MaxPerAdapter == 2

\* most records the Article collection holds in the persistence specification
MaxStore == 2

\* most articles one batch hands to the save loop in the persistence specification
MaxBatch == 2

\* number of clock advances in the router specification
MaxTicks == 3

\* lines of a reply of the generative backend
MaxLines == 4

-----------------------------------------------------------------------------
(* Generic helpers *)

Null == "null"

\* JavaScript `undefined` where a string was expected (trend.title.query missing)
Undefined == <<"#undefined">>

Min2(a, b) == IF a < b THEN a ELSE b

Max2(a, b) == IF a > b THEN a ELSE b

\* all sequences over S of length 0..n
SeqsUpTo(S, n) == UNION {[1..k -> S] : k \in 0..n}

\* Array.prototype.slice(0, n) for n >= 0
Slice(s, n) == SubSeq(s, 1, Min2(n, Len(s)))

\* String.prototype.toLowerCase on one character of the model's alphabet
LowerChar(c) ==
    CASE c = "A" -> "a"
      [] c = "B" -> "b"
      [] c = "M" -> "m"
      [] c = "R" -> "r"
      [] c = "Q" -> "q"
      [] c = "C" -> "c"
      [] OTHER -> c

\* String.prototype.toLowerCase
ToLowerCase(s) == [i \in 1..Len(s) |-> LowerChar(s[i])]

RECURSIVE TrimLeft(_)
TrimLeft(s) == IF s # <<>> /\ Head(s) = " " THEN TrimLeft(Tail(s)) ELSE s

RECURSIVE TrimRight(_)
TrimRight(s) ==
    IF s # <<>> /\ s[Len(s)] = " " THEN TrimRight(SubSeq(s, 1, Len(s) - 1)) ELSE s

\* String.prototype.trim
Trim(s) == TrimRight(TrimLeft(s))

\* s without its leading run of c
RECURSIVE DropWhile(_, _)
DropWhile(s, c) == IF s # <<>> /\ Head(s) = c THEN DropWhile(Tail(s), c) ELSE s

-----------------------------------------------------------------------------
(* TrendService: similarity and deduplication *)

\* one cell of a row of the matrix of levenshteinDistance (lines 765-776):
\* `left` is matrix[i][j-1], `diag` matrix[i-1][j-1], `up` matrix[i-1][j]
LevCell(same, diag, left, up) ==
    IF same THEN diag ELSE Min2(Min2(diag + 1, left + 1), up + 1)

\* row i of the matrix from row i-1 (prev, indexed 1..Len(str1)+1 for j = 0..Len(str1)),
\* built left to right; acc holds matrix[i][0..j-1]
RECURSIVE LevRow(_, _, _, _)
LevRow(prev, c, str1, acc) ==
    IF Len(acc) = Len(str1) + 1 THEN acc
    ELSE LET j == Len(acc)
         IN  LevRow(prev, c, str1,
                    Append(acc, LevCell(c = str1[j], prev[j], acc[j], prev[j + 1])))

\* rows 1..Len(str2) in turn, starting from row 0 = <<0, 1, ..., Len(str1)>>
RECURSIVE LevRows(_, _, _, _)
LevRows(prev, i, str1, str2) ==
    IF i > Len(str2) THEN prev
    ELSE LevRows(LevRow(prev, str2[i], str1, <<i>>), i + 1, str1, str2)

\* levenshteinDistance(str1, str2): matrix[str2.length][str1.length]
LevenshteinDistance(str1, str2) ==
    LevRows([j \in 1..(Len(str1) + 1) |-> j - 1], 1, str1, str2)[Len(str1) + 1]

\* calculateSimilarity(str1, str2) > 0.8, with the quotient
\* (longer.length - editDistance) / longer.length kept exact:
\* n/d > 0.8 iff 5n > 4d (d > 0); two empty strings have similarity 1.0
\* the threshold test with 0.9 in place of 0.8
SimilarAbove09(str1, str2) ==
    LET longer  == IF Len(str1) > Len(str2) THEN str1 ELSE str2
        shorter == IF Len(str1) > Len(str2) THEN str2 ELSE str1
    IN  IF Len(longer) = 0 THEN TRUE
        ELSE 10 * (Len(longer) - LevenshteinDistance(longer, shorter)) > 9 * Len(longer)

Similar(str1, str2) ==
    LET longer  == IF Len(str1) > Len(str2) THEN str1 ELSE str2
        shorter == IF Len(str1) > Len(str2) THEN str2 ELSE str1
    IN  IF Len(longer) = 0 THEN TRUE
        ELSE 5 * (Len(longer) - LevenshteinDistance(longer, shorter)) > 4 * Len(longer)

\* trend.keyword.toLowerCase().trim()
NormalizedKeyword(trend) == Trim(ToLowerCase(trend.keyword))

\* the loop of deduplicateTrends over trends[k..]: `seen` is the list of accepted
\* normalized keywords (a Set in insertion order), `unique` the accepted trends
RECURSIVE DedupFrom(_, _, _, _)
DedupFrom(trends, k, seen, unique) ==
    IF k > Len(trends) THEN unique
    ELSE LET nk    == NormalizedKeyword(trends[k])
             isDup == \E s \in 1..Len(seen) : Similar(nk, seen[s])
         IN  IF isDup THEN DedupFrom(trends, k + 1, seen, unique)
             ELSE DedupFrom(trends, k + 1, Append(seen, nk), Append(unique, trends[k]))

\* deduplicateTrends(trends): a trend whose keyword is undefined makes
\* trend.keyword.toLowerCase() throw a TypeError
DeduplicateTrends(trends) ==
    IF \E k \in 1..Len(trends) : trends[k].keyword = Undefined
    THEN [threw |-> TRUE, unique |-> <<>>]
    ELSE [threw |-> FALSE, unique |-> DedupFrom(trends, 1, <<>>, <<>>)]

\* insertion of t into a list sorted by descending trendScore, after every
\* element whose score is >= t's (Array.prototype.sort is stable)
RECURSIVE InsertByScore(_, _)
InsertByScore(sorted, t) ==
    IF sorted = <<>> THEN <<t>>
    ELSE IF Head(sorted).trendScore >= t.trendScore
         THEN <<Head(sorted)>> \o InsertByScore(Tail(sorted), t)
         ELSE <<t>> \o sorted

\* the mutated sort: the order of the adapters is kept
KeepOrder(trends) == trends

RECURSIVE SortFrom(_, _, _)
SortFrom(trends, k, acc) ==
    IF k > Len(trends) THEN acc ELSE SortFrom(trends, k + 1, InsertByScore(acc, trends[k]))

\* trends.sort((a, b) => b.trendScore - a.trendScore)
SortByScore(trends) == SortFrom(trends, 1, <<>>)

-----------------------------------------------------------------------------
(* TrendService: source adapters *)

\* calculateTrendScore(traffic): traffic is <<num>>, num the integer parsed from
\* the first run of digits and commas of the traffic string, or <<>> when the
\* string is missing or holds no digit
CalculateTrendScore(traffic) ==
    IF traffic = <<>> THEN 10
    ELSE LET num == traffic[1] IN
    IF num >= 1000000 THEN 100
    ELSE IF num >= 500000 THEN 90
    ELSE IF num >= 100000 THEN 80
    ELSE IF num >= 50000 THEN 70
    ELSE IF num >= 10000 THEN 60
    ELSE IF num >= 5000 THEN 50
    ELSE IF num >= 1000 THEN 40
    ELSE 30

\* fetchGoogleTrends(geo, category): the external call fails (the adapter throws)
\* or yields the trendingSearches of the latest day; only the social-trends
\* adapter records a position (0 stands for the missing field)
FetchGoogleTrends(outcome, category) ==
    IF outcome.kind # "ok" THEN [threw |-> TRUE, trends |-> <<>>]
    ELSE [threw  |-> FALSE,
          trends |-> [k \in 1..Len(outcome.items) |->
                        [keyword    |-> outcome.items[k].query,
                         source     |-> "google-trends",
                         category   |-> IF category # Null THEN category ELSE "general",
                         trendScore |-> CalculateTrendScore(outcome.items[k].traffic),
                         position   |-> 0]]]

\* elements of the scraped list beyond this index are ignored (index < 20)
TwitterTopN == 20

\* the forEach of page.evaluate over trendElements[k..]: index is k - 1
RECURSIVE TwitterFrom(_, _, _)
TwitterFrom(elements, k, acc) ==
    IF k > Len(elements) THEN acc
    ELSE LET index   == k - 1
             keyword == Trim(elements[k])
         IN  IF index < TwitterTopN /\ keyword # <<>> /\ Len(keyword) > 2
             THEN TwitterFrom(elements, k + 1,
                      Append(acc, [keyword    |-> keyword,
                                   source     |-> "twitter",
                                   category   |-> "general",
                                   trendScore |-> Max2(100 - (index * 5), 10),
                                   position   |-> index + 1]))
             ELSE TwitterFrom(elements, k + 1, acc)

\* initBrowser() inside fetchTwitterTrends: a held handle is reused, else
\* puppeteer.launch runs and may fail
BrowserAfterInit(held, outcome) == held \/ outcome.kind # "launchFail"

\* fetchTwitterTrends(): every failure is caught inside the adapter, which then
\* returns the empty list
FetchTwitterTrends(outcome) ==
    IF outcome.kind # "ok" THEN <<>> ELSE TwitterFrom(outcome.items, 1, <<>>)

\* mapSubredditToCategory(subreddit)
MapSubredditToCategory(subreddit) ==
    CASE subreddit = "technology" -> "technology"
      [] subreddit = "programming" -> "technology"
      [] subreddit = "science" -> "science"
      [] subreddit = "worldnews" -> "politics"
      [] subreddit = "business" -> "business"
      [] OTHER -> "other"

\* posts.forEach over posts[k..]; ups is a multiple of 100 in every post of the
\* model, so data.ups / 100 is the integer quotient
RECURSIVE RedditFrom(_, _, _)
RedditFrom(posts, k, acc) ==
    IF k > Len(posts) THEN acc
    ELSE IF posts[k].title # <<>> /\ posts[k].ups > 100
         THEN RedditFrom(posts, k + 1,
                  Append(acc, [keyword    |-> posts[k].title,
                               source     |-> "reddit",
                               category   |-> MapSubredditToCategory(posts[k].subreddit),
                               trendScore |-> Min2(posts[k].ups \div 100, 100),
                               position   |-> 0]))
         ELSE RedditFrom(posts, k + 1, acc)

\* fetchRedditTrends(): a failure is caught inside the adapter, which returns []
FetchRedditTrends(outcome) ==
    IF outcome.kind # "ok" THEN <<>> ELSE RedditFrom(outcome.items, 1, <<>>)

\* an adapter that is not enabled is not called
NotCalled == [kind |-> "notCalled", items |-> <<>>]

\* allTrends after the three guarded fetches of getAllTrends (lines 629-659)
AllTrends(options, env) ==
    (IF options.includeGoogle /\ ~FetchGoogleTrends(env.google, options.category).threw
        THEN FetchGoogleTrends(env.google, options.category).trends ELSE <<>>)
    \o (IF options.includeTwitter THEN FetchTwitterTrends(env.twitter) ELSE <<>>)
    \o (IF options.includeReddit THEN FetchRedditTrends(env.reddit) ELSE <<>>)

\* the adapters getAllTrends invokes
Invoked(options) ==
    {a \in {"google", "twitter", "reddit"} :
        \/ a = "google" /\ options.includeGoogle
        \/ a = "twitter" /\ options.includeTwitter
        \/ a = "reddit" /\ options.includeReddit}

\* this.browser when the finally block starts
BrowserBeforeClose(options, env, held) ==
    IF options.includeTwitter THEN BrowserAfterInit(held, env.twitter) ELSE held

\* closeBrowser(): awaits browser.close() when a handle is held; when that
\* rejects, the handle is not reset and the rejection leaves the finally block
CloseBrowser(held, closeFails) ==
    IF held /\ closeFails THEN [threw |-> TRUE, browser |-> TRUE]
    ELSE [threw |-> FALSE, browser |-> FALSE]

\* getAllTrends(options): the try block, the rethrowing catch and the finally
GetAllTrends(options, env, held) ==
    LET dedup  == DeduplicateTrends(AllTrends(options, env))
        sorted == Slice(SortByScore(dedup.unique), options.limit)
        close  == CloseBrowser(BrowserBeforeClose(options, env, held), env.closeFails)
    IN  [raised  |-> dedup.threw \/ close.threw,
         value   |-> IF dedup.threw \/ close.threw THEN <<>> ELSE sorted,
         browser |-> close.browser,
         invoked |-> Invoked(options)]

-----------------------------------------------------------------------------
(* Inputs of the aggregation specification *)

kRanges == <<"r", "a", "n", "g", "e", "s">>
kManger == <<"M", "a", "n", "g", "e", "r">>
kRanger == <<" ", "R", "a", "n", "g", "e", "r">>
kRange  == <<"r", "a", "n", "g", "e">>
kMange  == <<"m", "a", "n", "g", "e">>
kAI     == <<"A", "I">>

\* trendingSearches entries the search-trends API can return: the last one has
\* no title.query
GooglePool ==
    {[query |-> kRanges, traffic |-> <<2000>>],
     [query |-> kManger, traffic |-> <<1000000>>],
     [query |-> Undefined, traffic |-> <<>>]}

\* text contents of the scraped list elements
TwitterPool == {kRanger, kAI}

\* posts of the link-aggregator feed
RedditPool ==
    {[title |-> kRange, ups |-> 9500, subreddit |-> "technology"],
     [title |-> kMange, ups |-> 9900, subreddit |-> "pics"]}

Outcomes(pool, failures) ==
    {[kind |-> f, items |-> <<>>] : f \in failures}
    \cup {[kind |-> "ok", items |-> items] : items \in SeqsUpTo(pool, MaxPerAdapter)}

\* limit = 50 unless the caller gives one
DefaultLimit == 50

\* the options of the calls of the aggregation specification; category only
\* selects what the search-trends API is asked for and labels its candidates
AggOptions ==
    [includeGoogle : BOOLEAN, includeTwitter : BOOLEAN, includeReddit : BOOLEAN,
     category : {Null}, limit : {0, 1, DefaultLimit}]

\* the behaviours of the collaborators during one getAllTrends(options) call made
\* while this.browser is `held`: an outcome for each enabled adapter, and whether
\* browser.close() rejects (it is called only when a handle is held)
AggEnvs(options, held) ==
    {env \in [google    : IF options.includeGoogle
                          THEN Outcomes(GooglePool, {"fail"}) ELSE {NotCalled},
              twitter   : IF options.includeTwitter
                          THEN Outcomes(TwitterPool,
                                        IF held THEN {"pageFail"}
                                        ELSE {"launchFail", "pageFail"})
                          ELSE {NotCalled},
              reddit    : IF options.includeReddit
                          THEN Outcomes(RedditPool, {"fail"}) ELSE {NotCalled},
              closeFails : BOOLEAN] :
        env.closeFails => BrowserBeforeClose(options, env, held)}

kQuantumComputing ==
    <<"Q", "u", "a", "n", "t", "u", "m", " ", "C", "o", "m", "p", "u", "t", "i", "n", "g">>

kQuantumComputingBang ==
    <<"q", "u", "a", "n", "t", "u", "m", " ", "c", "o", "m", "p", "u", "t", "i", "n", "g",
      "!", "!">>

kClimateChange ==
    <<"C", "l", "i", "m", "a", "t", "e", " ", "C", "h", "a", "n", "g", "e">>

\* the adapters return Quantum Computing (score 90), then quantum computing!!
\* (score 85) and Climate Change (score 70)
EnvQuantum ==
    [google |-> [kind |-> "ok",
                 items |-> <<[query |-> kQuantumComputing, traffic |-> <<500000>>]>>],
     twitter |-> NotCalled,
     reddit |-> [kind |-> "ok",
                 items |-> <<[title |-> kQuantumComputingBang, ups |-> 8500,
                              subreddit |-> "science"],
                             [title |-> kClimateChange, ups |-> 7000,
                              subreddit |-> "science"]>>],
     closeFails |-> FALSE]

QuantumLimit == 10

QuantumOptions ==
    [includeGoogle |-> TRUE, includeTwitter |-> FALSE, includeReddit |-> TRUE,
     category |-> Null, limit |-> QuantumLimit]

-----------------------------------------------------------------------------
(* Aggregation specification: getAllTrends calls on one TrendService *)

\* ttl: 30 * 60 * 1000 ms, in minutes
CacheTtl == 30

\* trendsCache as the module initialises it and as DELETE /cache resets it
EmptyCache == [populated |-> FALSE, data |-> <<>>, timestamp |-> 0, ttl |-> CacheTtl]

OtherVarsInit ==
    /\ trendsCache = EmptyCache
    /\ now = 0
    /\ lastResp = [op |-> "none"]
    /\ store = <<>>
    /\ run = [pc |-> "idle"]
    /\ lastCreate = [done |-> FALSE]
    /\ PureIdle

\* a call getAllTrends(options) is about to be made on a new TrendService
\* (this.browser is null), with the collaborators about to behave as env
AggInit ==
    /\ browser = FALSE
    /\ \/ \E options \in AggOptions : \E env \in AggEnvs(options, browser) :
             aggCall = [done |-> FALSE, options |-> options, env |-> env,
                        held |-> browser, raised |-> FALSE, value |-> <<>>]
       \/ aggCall = [done |-> FALSE, options |-> QuantumOptions, env |-> EnvQuantum,
                     held |-> browser, raised |-> FALSE, value |-> <<>>]
    /\ OtherVarsInit

\* the call trendService.getAllTrends(options) runs to its end
CallGetAllTrends ==
    LET r == GetAllTrends(aggCall.options, aggCall.env, browser)
    IN  /\ ~aggCall.done
        /\ aggCall' = [aggCall EXCEPT !.done = TRUE, !.raised = r.raised,
                                      !.value = r.value]
        /\ browser' = r.browser
        /\ UNCHANGED <<trendsCache, now, lastResp, store, run, lastCreate, pureVars>>

AggNext == CallGetAllTrends

SpecAgg == AggInit /\ [][AggNext]_vars

-----------------------------------------------------------------------------
(* Properties of the aggregation *)

\* the candidates the adapters that were enabled and succeeded handed back
GoogleSucceeded == aggCall.options.includeGoogle /\ aggCall.env.google.kind = "ok"

TwitterSucceeded == aggCall.options.includeTwitter /\ aggCall.env.twitter.kind = "ok"

RedditSucceeded == aggCall.options.includeReddit /\ aggCall.env.reddit.kind = "ok"

SuccessfulCandidates ==
    (IF GoogleSucceeded
        THEN FetchGoogleTrends(aggCall.env.google, aggCall.options.category).trends
        ELSE <<>>)
    \o (IF TwitterSucceeded THEN FetchTwitterTrends(aggCall.env.twitter) ELSE <<>>)
    \o (IF RedditSucceeded THEN FetchRedditTrends(aggCall.env.reddit) ELSE <<>>)

\* (max_len - levenshtein) / max_len > 0.8 for two normalized keywords
SimilarityAbove(a, b) ==
    LET maxLen == Max2(Len(a), Len(b))
    IN  maxLen > 0 /\ 5 * (maxLen - LevenshteinDistance(a, b)) > 4 * maxLen

InResult(c) == \E i \in 1..Len(aggCall.value) : aggCall.value[i] = c

\* C2: in the sequence one getAllTrends call returns, every two distinct
\* candidates have normalized-keyword similarity at most 0.8
C2_PairwiseDissimilar ==
    (aggCall.done /\ ~aggCall.raised) =>
        \A i, j \in 1..Len(aggCall.value) :
            i < j => ~SimilarityAbove(NormalizedKeyword(aggCall.value[i]),
                                      NormalizedKeyword(aggCall.value[j]))

\* a call returned two or more candidates after deduplication (not truncation)
\* removed near-duplicates that the adapters had returned
C2_Witness ==
    /\ aggCall.done /\ ~aggCall.raised
    /\ aggCall.options.limit = DefaultLimit
    /\ Len(aggCall.value) >= 2
    /\ Len(SuccessfulCandidates) > Len(aggCall.value)

\* C3: when at least one enabled adapter succeeds (the others failing), the call
\* returns normally; every candidate of a successful adapter is in the result
\* unless a similar candidate is (deduplication) or the result is full
\* (truncation); and the result holds candidates of successful adapters only
C3_PartialFailureTolerated ==
    (aggCall.done /\ (GoogleSucceeded \/ TwitterSucceeded \/ RedditSucceeded)) =>
        /\ ~aggCall.raised
        /\ \A k \in 1..Len(SuccessfulCandidates) :
              LET c == SuccessfulCandidates[k]
              IN  \/ InResult(c)
                  \/ \E i \in 1..Len(aggCall.value) :
                        SimilarityAbove(NormalizedKeyword(c),
                                        NormalizedKeyword(aggCall.value[i]))
                  \/ Len(aggCall.value) = aggCall.options.limit
        /\ \A i \in 1..Len(aggCall.value) :
              \E k \in 1..Len(SuccessfulCandidates) :
                  SuccessfulCandidates[k] = aggCall.value[i]

\* C4: getAllTrends never raises, and returns the empty sequence when every
\* enabled adapter fails
C4_NeverRaises ==
    aggCall.done =>
        /\ ~aggCall.raised
        /\ (~(GoogleSucceeded \/ TwitterSucceeded \/ RedditSucceeded)
               => aggCall.value = <<>>)

IsSortedByScore(trends) ==
    \A k \in 1..(Len(trends) - 1) : trends[k].trendScore >= trends[k + 1].trendScore

\* C17: the sequence getAllTrends returns is ordered by non-increasing score and
\* is no longer than limit
C17_SortedAndTruncated ==
    (aggCall.done /\ ~aggCall.raised) =>
        /\ IsSortedByScore(aggCall.value)
        /\ Len(aggCall.value) <= aggCall.options.limit

\* a call with limit 1 returned, of the two candidates that survived
\* deduplication, the one a later adapter had returned with the higher score
C17_Witness ==
    /\ aggCall.done /\ ~aggCall.raised
    /\ aggCall.options.limit = 1 /\ Len(aggCall.value) = 1
    /\ Len(DeduplicateTrends(SuccessfulCandidates).unique) = 2
    /\ DeduplicateTrends(SuccessfulCandidates).unique[1].source = "google-trends"
    /\ aggCall.value[1].source = "reddit"

\* index of the first occurrence of c in the candidates, in adapter order
FirstIndex(c) ==
    CHOOSE k \in 1..Len(SuccessfulCandidates) :
        /\ SuccessfulCandidates[k] = c
        /\ \A m \in 1..(k - 1) : SuccessfulCandidates[m] # c

\* an accepted candidate that comes before position k and is similar to c
EarlierSimilarKept(c, k) ==
    \E j \in 1..(k - 1) :
        /\ InResult(SuccessfulCandidates[j])
        /\ SimilarityAbove(NormalizedKeyword(SuccessfulCandidates[j]),
                           NormalizedKeyword(c))

\* C20: a candidate is kept if and only if no candidate kept before it, in
\* adapter order, has similarity above 0.8 with it, whatever the scores; and for
\* Quantum Computing (90), quantum computing!! (85), Climate Change (70) with
\* limit 10 the output is Quantum Computing (90), Climate Change (70)
C20_FirstInAdapterOrderSurvives ==
    (aggCall.done /\ ~aggCall.raised) =>
        /\ (Len(SuccessfulCandidates) <= aggCall.options.limit) =>
              \A k \in 1..Len(SuccessfulCandidates) :
                  LET c == SuccessfulCandidates[k]
                  IN  InResult(c) <=> ~EarlierSimilarKept(c, FirstIndex(c))
        /\ (aggCall.options = QuantumOptions /\ aggCall.env = EnvQuantum) =>
              /\ Len(aggCall.value) = 2
              /\ aggCall.value[1].keyword = kQuantumComputing
              /\ aggCall.value[1].trendScore = 90
              /\ aggCall.value[2].keyword = kClimateChange
              /\ aggCall.value[2].trendScore = 70

\* a candidate was dropped although its score is higher than that of the
\* similar candidate an earlier adapter had returned
C20_Witness ==
    /\ aggCall.done /\ ~aggCall.raised
    /\ Len(SuccessfulCandidates) <= aggCall.options.limit
    /\ \E j, k \in 1..Len(SuccessfulCandidates) :
          /\ j < k
          /\ InResult(SuccessfulCandidates[j])
          /\ ~InResult(SuccessfulCandidates[k])
          /\ SimilarityAbove(NormalizedKeyword(SuccessfulCandidates[j]),
                             NormalizedKeyword(SuccessfulCandidates[k]))
          /\ SuccessfulCandidates[k].trendScore > SuccessfulCandidates[j].trendScore

\* C25: every social-trends candidate of a result has score
\* max(100 - 5 x position, 10), position being the one recorded on it
C25_TwitterScoreFromPosition ==
    (aggCall.done /\ ~aggCall.raised) =>
        \A k \in 1..Len(aggCall.value) :
            aggCall.value[k].source = "twitter" =>
                aggCall.value[k].trendScore
                    = Max2(100 - 5 * aggCall.value[k].position, 10)

-----------------------------------------------------------------------------
(* Article model and ArticleService.createArticle *)

\* enum of articleSchema.category
CategoryEnum ==
    {"technology", "business", "health", "entertainment", "sports", "politics",
     "science", "lifestyle", "travel", "food", "fashion", "education", "finance",
     "environment", "other"}

\* enum of articleSchema.trendData.source; "none" stands for article data that
\* carries no trendData (the schema default applies)
SourceEnum == {"google-trends", "twitter", "manual"}

IsLetter(c) == c \in {"a", "b", "A", "B"}

\* the atoms of new RegExp(title, 'i') for a pattern over letters and "+":
\* a letter, or a letter followed by the quantifier "+"; a "+" with nothing to
\* repeat makes the RegExp constructor throw a SyntaxError
RECURSIVE ParseFrom(_, _, _)
ParseFrom(pattern, k, atoms) ==
    IF k > Len(pattern) THEN [ok |-> TRUE, atoms |-> atoms]
    ELSE IF ~IsLetter(pattern[k]) THEN [ok |-> FALSE, atoms |-> <<>>]
    ELSE IF k < Len(pattern) /\ pattern[k + 1] = "+"
         THEN ParseFrom(pattern, k + 2, Append(atoms, [c |-> pattern[k], plus |-> TRUE]))
         ELSE ParseFrom(pattern, k + 1, Append(atoms, [c |-> pattern[k], plus |-> FALSE]))

NewRegExp(pattern) == ParseFrom(pattern, 1, <<>>)

\* atoms[k..] match s from position pos on (flag i: letters compare lowercased)
RECURSIVE MatchAt(_, _, _, _)
MatchAt(atoms, k, s, pos) ==
    IF k > Len(atoms) THEN TRUE
    ELSE IF pos > Len(s) THEN FALSE
    ELSE IF LowerChar(atoms[k].c) # LowerChar(s[pos]) THEN FALSE
    ELSE IF atoms[k].plus
         THEN MatchAt(atoms, k, s, pos + 1) \/ MatchAt(atoms, k + 1, s, pos + 1)
         ELSE MatchAt(atoms, k + 1, s, pos + 1)

\* { title: { $regex: ... } }: the pattern is searched for anywhere in the title
RegexMatches(atoms, s) == \E pos \in 1..(Len(s) + 1) : MatchAt(atoms, 1, s, pos)

\* Article.findOne({ title: { $regex: regex } }): index in the collection of the
\* first record whose title matches, 0 when there is none
FindOneByTitle(st, atoms) ==
    IF \E k \in 1..Len(st) : RegexMatches(atoms, st[k].title)
    THEN CHOOSE k \in 1..Len(st) :
            /\ RegexMatches(atoms, st[k].title)
            /\ \A m \in 1..(k - 1) : ~RegexMatches(atoms, st[m].title)
    ELSE 0

\* schema validation of article.save(): category and trendData.source must be
\* values of their enums
Validates(data) ==
    /\ data.title # <<>>
    /\ data.category \in CategoryEnum
    /\ data.source \in SourceEnum \cup {"none"}

\* the characters /[^a-z0-9\s-]/g leaves in place, white space and hyphen aside
SlugAlnum ==
    {"a", "b", "c", "d", "e", "f", "g", "h", "i", "j", "k", "l", "m", "n", "o", "p",
     "q", "r", "s", "t", "u", "v", "w", "x", "y", "z",
     "0", "1", "2", "3", "4", "5", "6", "7", "8", "9"}

\* what toLowerCase() and replace(/[^a-z0-9\s-]/g, '') leave of one piece of a
\* title: of a character itself or nothing, of a longer run of text its words
SlugPieces(c) ==
    CASE LowerChar(c) \in SlugAlnum \cup {" ", "-"} -> <<LowerChar(c)>>
      [] c = "an unbroken line of text" ->
            <<"an", " ", "unbroken", " ", "line", " ", "of", " ", "text">>
      [] c = ": Latest Trends and Insights" ->
            <<" ", "latest", " ", "trends", " ", "and", " ", "insights">>
      [] OTHER -> <<>>

RECURSIVE SlugKept(_)
SlugKept(title) ==
    IF title = <<>> THEN <<>> ELSE SlugPieces(Head(title)) \o SlugKept(Tail(title))

\* replace(/c+/g, by): every maximal run of c becomes one `by`
RECURSIVE ReplaceRuns(_, _, _)
ReplaceRuns(s, c, by) ==
    IF s = <<>> THEN <<>>
    ELSE IF Head(s) = c THEN <<by>> \o ReplaceRuns(DropWhile(s, c), c, by)
    ELSE <<Head(s)>> \o ReplaceRuns(Tail(s), c, by)

\* generateSlug(title): String.prototype.trim takes no argument, so the final
\* .trim('-') removes white space, of which none is left
GenerateSlug(title) ==
    Trim(ReplaceRuns(ReplaceRuns(SlugKept(title), " ", "-"), "-", "-"))

\* the pre-save hook derives a slug, made unique by a timestamp suffix, when the
\* data carries none: serial > 0 stands for that suffix
WithSlug(st, data) ==
    IF data.slug # <<>> THEN [data EXCEPT !.serial = 0]
    ELSE [data EXCEPT !.slug = GenerateSlug(data.title), !.serial = Len(st) + 1]

\* the unique index on slug
SlugTaken(st, rec) ==
    \E k \in 1..Len(st) : st[k].slug = rec.slug /\ st[k].serial = rec.serial

\* createArticle(articleData) on collection st: the outcome, the record returned
\* (when no error is thrown) and the collection afterwards
CreateArticle(st, data) ==
    LET regex == NewRegExp(data.title)
        found == FindOneByTitle(st, regex.atoms)
        rec   == WithSlug(st, data)
    IN  IF ~regex.ok
        THEN [outcome |-> "regexError", returned |-> <<>>, store |-> st]
        ELSE IF found # 0
        THEN [outcome |-> "existing", returned |-> <<st[found]>>, store |-> st]
        ELSE IF ~Validates(data)
        THEN [outcome |-> "validationError", returned |-> <<>>, store |-> st]
        ELSE IF SlugTaken(st, rec)
        THEN [outcome |-> "duplicateKey", returned |-> <<>>, store |-> st]
        ELSE [outcome |-> "inserted", returned |-> <<rec>>, store |-> Append(st, rec)]

\* the save loop of generateArticlesFromTrends (lines 63-72) over
\* generatedArticles[k..]: a createArticle that throws is logged and skipped
RECURSIVE SaveFrom(_, _, _, _, _)
SaveFrom(st, generatedArticles, k, savedArticles, outcomes) ==
    IF k > Len(generatedArticles)
    THEN [store |-> st, savedArticles |-> savedArticles, outcomes |-> outcomes]
    ELSE LET c == CreateArticle(st, generatedArticles[k])
         IN  SaveFrom(c.store, generatedArticles, k + 1,
                      savedArticles \o c.returned, Append(outcomes, c.outcome))

SaveArticles(st, generatedArticles) == SaveFrom(st, generatedArticles, 1, <<>>, <<>>)

\* generateArticle's options.category when the caller passes none
DefaultCategory == "general"

\* finalArticle of generateArticle (lines 886-904) for a backend reply whose
\* TITLE line is `title`, generated for `trend` with options `articleOptions`
FinalArticle(title, trend, articleOptions) ==
    [title    |-> title,
     slug     |-> GenerateSlug(title),
     serial   |-> 0,
     category |-> IF "category" \in DOMAIN articleOptions
                  THEN articleOptions.category ELSE DefaultCategory,
     source   |-> trend.source]

-----------------------------------------------------------------------------
(* Persistence specification: createArticle calls on one Article collection,
   from POST /api/articles and from the save loop of a batch run *)

tAb     == <<"a", "b">>
tAB     == <<"A", "B">>
tA      == <<"a">>
tAplusB == <<"a", "+", "b">>
tPlusA  == <<"+", "a">>

\* titles of article data: generated by the backend or typed by an admin
Titles == {tAb, tAB, tA, tAplusB, tPlusA}

\* a candidate as the search-trends adapter returns it
TrendOf(keyword, score) ==
    [keyword |-> keyword, source |-> "google-trends", category |-> "general",
     trendScore |-> score, position |-> 0]

PersistInit ==
    /\ store = <<>>
    /\ lastCreate = [done |-> FALSE, via |-> "none", data |-> <<>>, before |-> <<>>,
                     outcomes |-> <<>>, saved |-> <<>>]
    /\ PureIdle
    /\ browser = FALSE
    /\ aggCall = [done |-> FALSE]
    /\ trendsCache = EmptyCache
    /\ now = 0
    /\ lastResp = [op |-> "none"]
    /\ run = [pc |-> "idle"]

\* POST /api/articles: the body passed the validators (title of 1..200
\* characters, category of the enum) and is handed to createArticle
AdminCreateArticle(title, category) ==
    LET data == [title |-> title, slug |-> <<>>, serial |-> 0,
                 category |-> category, source |-> "none"]
        c    == CreateArticle(store, data)
    IN  /\ Len(store) < MaxStore
        /\ store' = c.store
        /\ lastCreate' = [done |-> TRUE, via |-> "admin", data |-> <<data>>,
                          before |-> store, outcomes |-> <<c.outcome>>,
                          saved |-> c.returned]
        /\ UNCHANGED <<browser, aggCall, trendsCache, now, lastResp, run, pureVars>>

\* the persistence step of one batch run: generateMultipleArticles returned the
\* articles generated from replies titled `titles`, and the save loop runs
SaveGeneratedArticles(titles) ==
    LET generatedArticles ==
            [k \in 1..Len(titles) |-> FinalArticle(titles[k], TrendOf(kRanges, 40), <<>>)]
        r == SaveArticles(store, generatedArticles)
    IN  /\ store' = r.store
        /\ lastCreate' = [done |-> TRUE, via |-> "batch", data |-> generatedArticles,
                          before |-> store, outcomes |-> r.outcomes,
                          saved |-> r.savedArticles]
        /\ UNCHANGED <<browser, aggCall, trendsCache, now, lastResp, run, pureVars>>

PersistNext ==
    \/ \E title \in Titles, category \in {"technology"} :
          AdminCreateArticle(title, category)
    \/ \E titles \in SeqsUpTo(Titles, MaxBatch) : SaveGeneratedArticles(titles)

SpecPersist == PersistInit /\ [][PersistNext]_vars

-----------------------------------------------------------------------------
(* Properties of the persistence step *)

EqualIgnoringCase(a, b) == ToLowerCase(a) = ToLowerCase(b)

NoTwoEqualTitles(st) ==
    \A i, j \in 1..Len(st) : i < j => ~EqualIgnoringCase(st[i].title, st[j].title)

HoldsTitle(st, title) == \E k \in 1..Len(st) : EqualIgnoringCase(st[k].title, title)

\* C1: a batch run never leaves two records with titles equal ignoring case in
\* the store, and a generated article whose title equals a persisted title
\* ignoring case is not inserted: the existing record is returned in its place
C1_IdempotentPersistence ==
    (lastCreate.done /\ lastCreate.via = "batch") =>
        /\ NoTwoEqualTitles(lastCreate.before) => NoTwoEqualTitles(store)
        /\ \A k \in 1..Len(lastCreate.data) :
              HoldsTitle(lastCreate.before, lastCreate.data[k].title)
                  => lastCreate.outcomes[k] = "existing"

\* C7: createArticle skips insertion only for a title some persisted record
\* equals ignoring case: when no persisted title (and no earlier title of the
\* same batch) equals the title ignoring case, the existence check raises no
\* error and finds nothing, and data that passes schema validation is inserted
C7_SkipOnlyOnEqualTitle ==
    lastCreate.done =>
        \A k \in 1..Len(lastCreate.data) :
            (/\ ~HoldsTitle(lastCreate.before, lastCreate.data[k].title)
             /\ \A m \in 1..(k - 1) :
                   ~EqualIgnoringCase(lastCreate.data[m].title, lastCreate.data[k].title))
            => /\ lastCreate.outcomes[k] \notin {"existing", "regexError"}
               /\ Validates(lastCreate.data[k]) => lastCreate.outcomes[k] = "inserted"

-----------------------------------------------------------------------------
(* Router specification: /api/trends with the process-wide trendsCache *)

\* the clock advances in steps of this many minutes
TickMinutes == 15

\* limit of GET / unless the query gives one
DefaultListLimit == 20

\* behaviours of the collaborators during the getAllTrends call of one request
EnvAllFail ==
    [google |-> [kind |-> "fail", items |-> <<>>],
     twitter |-> [kind |-> "launchFail", items |-> <<>>],
     reddit |-> [kind |-> "fail", items |-> <<>>], closeFails |-> FALSE]

EnvMixed ==
    [google |-> [kind |-> "ok", items |-> <<[query |-> kRanges, traffic |-> <<2000>>]>>],
     twitter |-> [kind |-> "ok", items |-> <<kRanger>>],
     reddit |-> [kind |-> "ok",
                 items |-> <<[title |-> kMange, ups |-> 9500, subreddit |-> "technology"]>>],
     closeFails |-> FALSE]

EnvNoKeyword ==
    [google |-> [kind |-> "ok", items |-> <<[query |-> Undefined, traffic |-> <<>>]>>],
     twitter |-> [kind |-> "pageFail", items |-> <<>>],
     reddit |-> [kind |-> "fail", items |-> <<>>], closeFails |-> FALSE]

RouteEnvs == {EnvAllFail, EnvMixed, EnvNoKeyword}

RouteInit ==
    /\ trendsCache = EmptyCache
    /\ now = TickMinutes
    /\ lastResp = [op |-> "none", fresh |-> FALSE, source |-> "all", limit |-> 0,
                   status |-> 0, cached |-> FALSE, data |-> <<>>, invoked |-> {},
                   wasPopulated |-> FALSE, ageWas |-> 0]
    /\ browser = FALSE
    /\ aggCall = [done |-> FALSE]
    /\ store = <<>>
    /\ run = [pc |-> "idle"]
    /\ lastCreate = [done |-> FALSE]
    /\ PureIdle

\* cacheAge = Date.now() - trendsCache.timestamp
CacheAge == now - trendsCache.timestamp

\* the mutated freshness test: cacheAge <= ttl
CacheFreshInclusive ==
    trendsCache.populated /\ trendsCache.timestamp # 0 /\ CacheAge <= trendsCache.ttl

\* the mutated freshness test: an empty cached list counts as no list
CacheFreshNonEmpty ==
    /\ trendsCache.populated /\ trendsCache.data # <<>>
    /\ trendsCache.timestamp # 0 /\ CacheAge < trendsCache.ttl

\* trendsCache.data && trendsCache.timestamp && cacheAge < trendsCache.ttl
CacheFresh ==
    trendsCache.populated /\ trendsCache.timestamp # 0 /\ CacheAge < trendsCache.ttl

\* GET /api/trends?source&category&limit&fresh
ListTrends(source, category, limit, fresh, env) ==
    LET options == [includeGoogle  |-> source \in {"all", "google"},
                    includeTwitter |-> source \in {"all", "twitter"},
                    includeReddit  |-> source \in {"all", "reddit"},
                    category       |-> category,
                    limit          |-> limit * 2]
        r    == GetAllTrends(options, env, browser)
        resp == [op |-> "list", fresh |-> fresh, source |-> source, limit |-> limit,
                 status |-> 200, cached |-> FALSE, data |-> <<>>, invoked |-> {},
                 wasPopulated |-> trendsCache.populated /\ trendsCache.timestamp # 0,
                 ageWas |-> IF trendsCache.populated THEN CacheAge ELSE 0]
    IN  IF ~fresh /\ CacheFresh
        THEN /\ lastResp' = [resp EXCEPT !.cached = TRUE,
                                         !.data = Slice(trendsCache.data, limit)]
             /\ UNCHANGED <<trendsCache, browser>>
        ELSE /\ browser' = r.browser
             /\ IF r.raised
                THEN /\ lastResp' = [resp EXCEPT !.status = 500, !.invoked = r.invoked]
                     /\ UNCHANGED trendsCache
                ELSE /\ trendsCache' = [populated |-> TRUE, data |-> r.value,
                                        timestamp |-> now, ttl |-> trendsCache.ttl]
                     /\ lastResp' = [resp EXCEPT !.data = Slice(r.value, limit),
                                                 !.invoked = r.invoked]

\* POST /api/trends/fetch { sources, categories, limit }
ManualFetch(sources, categories, limit, env) ==
    LET options == [includeGoogle  |-> "google" \in sources,
                    includeTwitter |-> "twitter" \in sources,
                    includeReddit  |-> "reddit" \in sources,
                    category       |-> Null,
                    limit          |-> limit]
        r        == GetAllTrends(options, env, browser)
        filtered == IF categories # {}
                    THEN SelectSeq(r.value, LAMBDA t : t.category \in categories)
                    ELSE r.value
        resp == [op |-> "fetch", fresh |-> TRUE, source |-> "all", limit |-> limit,
                 status |-> 200, cached |-> FALSE, data |-> <<>>, invoked |-> r.invoked,
                 wasPopulated |-> trendsCache.populated /\ trendsCache.timestamp # 0,
                 ageWas |-> IF trendsCache.populated THEN CacheAge ELSE 0]
    IN  /\ browser' = r.browser
        /\ IF r.raised
           THEN /\ lastResp' = [resp EXCEPT !.status = 500]
                /\ UNCHANGED trendsCache
           ELSE /\ trendsCache' = [populated |-> TRUE, data |-> filtered,
                                   timestamp |-> now, ttl |-> trendsCache.ttl]
                /\ lastResp' = [resp EXCEPT !.data = filtered]

\* DELETE /api/trends/cache
ClearCache ==
    /\ trendsCache' = [populated |-> FALSE, data |-> <<>>, timestamp |-> 0,
                       ttl |-> trendsCache.ttl]
    /\ lastResp' = [op |-> "clear", fresh |-> FALSE, source |-> "all", limit |-> 0,
                    status |-> 200, cached |-> FALSE, data |-> <<>>, invoked |-> {},
                    wasPopulated |-> trendsCache.populated /\ trendsCache.timestamp # 0,
                    ageWas |-> IF trendsCache.populated THEN CacheAge ELSE 0]
    /\ UNCHANGED browser

\* time passes between two requests
Tick ==
    /\ now < (MaxTicks + 1) * TickMinutes
    /\ now' = now + TickMinutes
    /\ UNCHANGED <<trendsCache, lastResp, browser>>

ListTrendsRequest ==
    /\ \E source \in {"all", "google", "twitter", "reddit"},
          limit \in {1, DefaultListLimit}, fresh \in BOOLEAN, env \in RouteEnvs :
             ListTrends(source, Null, limit, fresh, env)
    /\ UNCHANGED <<now, aggCall, store, run, lastCreate, pureVars>>

ManualFetchRequest ==
    /\ \E sources \in {{"google", "twitter"}, {"reddit"}},
          categories \in {{}, {"technology"}}, env \in RouteEnvs :
             ManualFetch(sources, categories, DefaultLimit, env)
    /\ UNCHANGED <<now, aggCall, store, run, lastCreate, pureVars>>

ClearCacheRequest == ClearCache /\ UNCHANGED <<now, aggCall, store, run, lastCreate, pureVars>>

ClockTick == Tick /\ UNCHANGED <<aggCall, store, run, lastCreate, pureVars>>

RouteNext == ListTrendsRequest \/ ManualFetchRequest \/ ClearCacheRequest \/ ClockTick

SpecRoute == RouteInit /\ [][RouteNext]_vars

\* C5: GET /api/trends invokes a source adapter if and only if fresh=true, or
\* the cache is unpopulated, or the cache age is at least the TTL; with
\* fresh=false and age < TTL it answers from the cache, cached=true
C5_AdaptersOnlyOnMissOrFresh ==
    lastResp.op = "list" =>
        /\ (lastResp.invoked # {})
              <=> (lastResp.fresh \/ ~lastResp.wasPopulated \/ lastResp.ageWas >= CacheTtl)
        /\ (~lastResp.fresh /\ lastResp.wasPopulated /\ lastResp.ageWas < CacheTtl)
              => (lastResp.cached /\ lastResp.status = 200)
        /\ lastResp.cached => lastResp.invoked = {}

\* a listing was answered from a cache filled some time ago and still fresh
C5_Witness ==
    /\ lastResp.op = "list" /\ ~lastResp.fresh /\ lastResp.wasPopulated
    /\ lastResp.ageWas > 0 /\ lastResp.ageWas < CacheTtl
    /\ lastResp.cached /\ lastResp.invoked = {} /\ lastResp.data # <<>>

\* the source labels of the adapters a listing with ?source= enables (lines 93-95)
SourcesAsked(source) ==
    (IF source \in {"all", "google"} THEN {"google-trends"} ELSE {})
    \cup (IF source \in {"all", "twitter"} THEN {"twitter"} ELSE {})
    \cup (IF source \in {"all", "reddit"} THEN {"reddit"} ELSE {})

\* C27: every candidate of a listing response comes from a source the request
\* asked for, also when the response is served from the cache
C27_ResponseFromAskedSources ==
    (lastResp.op = "list" /\ lastResp.status = 200) =>
        \A k \in 1..Len(lastResp.data) :
            lastResp.data[k].source \in SourcesAsked(lastResp.source)

\* a listing that runs the aggregation while every adapter fails
ListTrendsAllFail ==
    \E source \in {"all", "google", "twitter", "reddit"},
       limit \in {1, DefaultListLimit}, fresh \in BOOLEAN :
          ListTrends(source, Null, limit, fresh, EnvAllFail) /\ ~lastResp'.cached

\* C30: a listing whose aggregation has every adapter fail stores the empty
\* list in the cache with the current time, and a listing with fresh=false made
\* while an empty cached list is younger than the TTL answers the empty list
\* with cached=true, invokes no adapter and leaves the cache as it is
C30_EmptyResultIsCachedAndServed ==
    [][/\ (ListTrendsAllFail /\ now' = now) =>
             /\ lastResp'.status = 200 /\ lastResp'.data = <<>>
             /\ trendsCache' = [populated |-> TRUE, data |-> <<>>,
                                timestamp |-> now, ttl |-> CacheTtl]
       /\ (/\ trendsCache.populated /\ trendsCache.data = <<>>
           /\ now - trendsCache.timestamp < CacheTtl
           /\ now' = now /\ lastResp'.op = "list" /\ ~lastResp'.fresh) =>
             /\ lastResp'.cached /\ lastResp'.status = 200
             /\ lastResp'.data = <<>> /\ lastResp'.invoked = {}
             /\ trendsCache' = trendsCache]_vars

\* a listing was answered with an empty list cached some time ago
C30_Witness ==
    /\ lastResp.op = "list" /\ ~lastResp.fresh /\ lastResp.cached
    /\ lastResp.status = 200 /\ lastResp.data = <<>> /\ lastResp.invoked = {}
    /\ lastResp.wasPopulated /\ lastResp.ageWas > 0 /\ lastResp.ageWas < CacheTtl
    /\ trendsCache.populated /\ trendsCache.data = <<>>

-----------------------------------------------------------------------------
(* Batch specification: POST /api/trends/generate-articles, from the request to
   the response, through generateArticlesFromTrends and the loop of
   generateMultipleArticles *)

\* maxArticles = 5 of generateMultipleArticles unless its options give one
DefaultMaxArticles == 5

\* six searches, no two alike, each in a traffic class of its own
EnvSix ==
    [google |-> [kind |-> "ok",
                 items |-> <<[query |-> <<"k", "1">>, traffic |-> <<1000000>>],
                             [query |-> <<"k", "2">>, traffic |-> <<500000>>],
                             [query |-> <<"k", "3">>, traffic |-> <<100000>>],
                             [query |-> <<"k", "4">>, traffic |-> <<50000>>],
                             [query |-> <<"k", "5">>, traffic |-> <<10000>>],
                             [query |-> <<"k", "6">>, traffic |-> <<5000>>]>>],
     twitter |-> [kind |-> "pageFail", items |-> <<>>],
     reddit |-> NotCalled, closeFails |-> FALSE]

\* behaviours of the collaborators during the getAllTrends call the service makes
BatchEnvs == {EnvAllFail, EnvMixed, EnvNoKeyword, EnvSix}

\* the mutated options: the link aggregator is enabled as well
BatchFetchOptionsWithReddit(limit) ==
    [includeGoogle |-> TRUE, includeTwitter |-> TRUE, includeReddit |-> TRUE,
     category |-> Null, limit |-> limit]

\* the options of the getAllTrends calls of a batch run
BatchFetchOptions(limit) ==
    [includeGoogle |-> TRUE, includeTwitter |-> TRUE, includeReddit |-> FALSE,
     category |-> Null, limit |-> limit]

\* lists an earlier request has left in trendsCache.data
CachedLists ==
    {GetAllTrends(BatchFetchOptions(DefaultLimit), env, FALSE).value :
        env \in {EnvAllFail, EnvMixed}}

\* the record POST /api/articles has inserted for the title "ab"
StoredAb ==
    CreateArticle(<<>>, [title |-> tAb, slug |-> <<>>, serial |-> 0,
                         category |-> "technology", source |-> "none"]).store

\* TITLE lines of the replies of the generative backend
BatchTitles == {tAb, tAplusB}

\* the mutated filter: the filter is dropped when it would leave nothing
FilterUnlessEmpty(trends, categories) ==
    IF SelectSeq(trends, LAMBDA t : t.category \in categories) # <<>>
    THEN SelectSeq(trends, LAMBDA t : t.category \in categories)
    ELSE trends

\* filteredTrends of generateArticlesFromTrends (lines 47-49)
FilterByCategories(trends, categories) ==
    IF categories # {}
    THEN SelectSeq(trends, LAMBDA t : t.category \in categories)
    ELSE trends

\* the mutated handler: a list the route fetched is stored in the cache
CacheStoringBatchFetch(fetch, trends) ==
    IF fetch
    THEN [populated |-> TRUE, data |-> trends, timestamp |-> now, ttl |-> trendsCache.ttl]
    ELSE trendsCache

\* trendsCache after the route of POST /generate-articles chose its trends
\* (lines 249-268): the handler reads the cache and has no assignment to it
CacheAfterBatchFetch(fetch, trends) == trendsCache

IdleRun ==
    [pc |-> "idle", maxArticles |-> 0, categories |-> {}, useCache |-> FALSE,
     cacheWasFresh |-> FALSE, routeInvoked |-> {}, serviceInvoked |-> {},
     fetched |-> 0, matching |-> 0, fetchedCategories |-> {}, storeReachable |-> TRUE,
     selectedTrends |-> <<>>, batch |-> <<>>, i |-> 0, sleeps |-> 0,
     attempts |-> <<>>, succeeded |-> <<>>, articles |-> <<>>,
     savedArticles |-> <<>>, outcomes |-> <<>>, status |-> 0]

\* the process has served requests for a while: the cache is unpopulated, fresh
\* or expired, and the store is empty or holds an article an admin created
BatchInit ==
    /\ now = MaxTicks * TickMinutes
    /\ trendsCache \in
          {EmptyCache}
          \cup {[populated |-> TRUE, data |-> data, timestamp |-> ts, ttl |-> CacheTtl] :
                   data \in CachedLists, ts \in {now - TickMinutes, now - CacheTtl}}
    /\ store \in {<<>>, StoredAb}
    /\ run = IdleRun
    /\ browser = FALSE
    /\ aggCall = [done |-> FALSE]
    /\ lastResp = [op |-> "none"]
    /\ lastCreate = [done |-> FALSE]
    /\ PureIdle

\* the handler of POST /generate-articles up to the first generateArticle call:
\* the route's choice of trends (lines 249-268), generateArticlesFromTrends up to
\* its selection (lines 21-54) and the selection of generateMultipleArticles
\* (lines 922-929); an error on the way is answered with status 500
StartBatch(maxArticles, categories, useCache, envRoute, envService) ==
    LET cached   == IF useCache /\ CacheFresh THEN trendsCache.data ELSE <<>>
        fetch    == Len(cached) = 0
        r1       == GetAllTrends(BatchFetchOptions(maxArticles * 3), envRoute, browser)
        r2       == GetAllTrends(BatchFetchOptions(maxArticles * 2), envService, FALSE)
        trends   == r2.value
        filteredTrends == FilterByCategories(trends, categories)
        selectedTrends == Slice(filteredTrends, maxArticles)
        batch    == Slice(selectedTrends, DefaultMaxArticles)
        entered  == [IdleRun EXCEPT !.maxArticles = maxArticles,
                                    !.categories = categories,
                                    !.useCache = useCache,
                                    !.cacheWasFresh = CacheFresh,
                                    !.routeInvoked = IF fetch THEN r1.invoked ELSE {}]
    IN  /\ run.pc = "idle"
        /\ browser' = IF fetch THEN r1.browser ELSE browser
        /\ run' =
            IF fetch /\ r1.raised
            THEN [entered EXCEPT !.pc = "done", !.status = 500]
            ELSE IF r2.raised
            THEN [entered EXCEPT !.pc = "done", !.status = 500,
                                 !.serviceInvoked = r2.invoked]
            ELSE IF Len(trends) = 0 \/ Len(batch) = 0
            THEN [entered EXCEPT !.pc = "done", !.status = 200,
                                 !.serviceInvoked = r2.invoked,
                                 !.fetched = Len(trends),
                                 !.fetchedCategories =
                                     {trends[k].category : k \in 1..Len(trends)},
                                 !.matching = Len(SelectSeq(trends,
                                     LAMBDA t : t.category \in categories)),
                                 !.selectedTrends = selectedTrends]
            ELSE [entered EXCEPT !.pc = "generating",
                                 !.serviceInvoked = r2.invoked,
                                 !.fetched = Len(trends),
                                 !.fetchedCategories =
                                     {trends[k].category : k \in 1..Len(trends)},
                                 !.matching = Len(SelectSeq(trends,
                                     LAMBDA t : t.category \in categories)),
                                 !.selectedTrends = selectedTrends,
                                 !.batch = batch, !.i = 1,
                                 !.attempts = <<batch[1]>>]
        /\ trendsCache' = CacheAfterBatchFetch(fetch /\ ~r1.raised, r1.value)
        /\ UNCHANGED <<now, store>>

\* generateArticle(selectedTrends[i]) resolves with the article built from a
\* reply titled `title`; the loop then sleeps unless this was the last trend
GenerateArticleResolves(title) ==
    /\ run.pc = "generating"
    /\ run' = [run EXCEPT
                 !.articles = Append(@, FinalArticle(title, run.batch[run.i], <<>>)),
                 !.succeeded = Append(@, TRUE),
                 !.pc = IF run.i < Len(run.batch) THEN "sleeping" ELSE "saving"]
    /\ UNCHANGED <<trendsCache, now, store, browser>>

\* generateArticle(selectedTrends[i]) rejects: the catch block logs, and the loop
\* goes on to the next trend at once
GenerateArticleRejects ==
    /\ run.pc = "generating"
    /\ run' = IF run.i < Len(run.batch)
              THEN [run EXCEPT !.succeeded = Append(@, FALSE),
                               !.i = @ + 1,
                               !.attempts = Append(@, run.batch[run.i + 1])]
              ELSE [run EXCEPT !.succeeded = Append(@, FALSE), !.pc = "saving"]
    /\ UNCHANGED <<trendsCache, now, store, browser>>

\* sleep(delay) resolves and the next generateArticle call starts
SleepResolves ==
    /\ run.pc = "sleeping"
    /\ run' = [run EXCEPT !.pc = "generating", !.i = @ + 1, !.sleeps = @ + 1,
                          !.attempts = Append(@, run.batch[run.i + 1])]
    /\ UNCHANGED <<trendsCache, now, store, browser>>

\* the save loop of generateArticlesFromTrends and the response of the route
SaveAndRespond ==
    LET r == SaveArticles(store, run.articles)
    IN  /\ run.pc = "saving"
        /\ store' = r.store
        /\ run' = [run EXCEPT !.pc = "done", !.status = 200,
                              !.savedArticles = r.savedArticles,
                              !.outcomes = r.outcomes]
        /\ UNCHANGED <<trendsCache, now, browser>>

\* the save loop while the database cannot be reached: every createArticle call
\* rejects at its existence check, the loop logs each error and goes on (lines
\* 65-71), and the route answers with what was saved
SaveWhileStoreUnreachable ==
    /\ run.pc = "saving"
    /\ run' = [run EXCEPT !.pc = "done", !.status = 200, !.storeReachable = FALSE,
                          !.savedArticles = <<>>,
                          !.outcomes = [k \in 1..Len(run.articles) |-> "storeError"]]
    /\ UNCHANGED <<trendsCache, now, store, browser>>

GenerateArticlesRequest ==
    /\ \E maxArticles \in {1, 2, DefaultMaxArticles + 1},
          categories \in {{}, {"general"}, {"technology", "business", "health"}},
          useCache \in BOOLEAN, envRoute \in RouteEnvs, envService \in BatchEnvs :
             StartBatch(maxArticles, categories, useCache, envRoute, envService)
    /\ UNCHANGED <<aggCall, lastResp, lastCreate, pureVars>>

GenerationSucceeds ==
    /\ \E title \in BatchTitles : GenerateArticleResolves(title)
    /\ UNCHANGED <<aggCall, lastResp, lastCreate, pureVars>>

GenerationFails == GenerateArticleRejects /\ UNCHANGED <<aggCall, lastResp, lastCreate, pureVars>>

DelayElapses == SleepResolves /\ UNCHANGED <<aggCall, lastResp, lastCreate, pureVars>>

BatchResponds == SaveAndRespond /\ UNCHANGED <<aggCall, lastResp, lastCreate, pureVars>>

BatchRespondsStoreDown ==
    SaveWhileStoreUnreachable /\ UNCHANGED <<aggCall, lastResp, lastCreate, pureVars>>

BatchNext ==
    \/ GenerateArticlesRequest
    \/ GenerationSucceeds
    \/ GenerationFails
    \/ DelayElapses
    \/ BatchResponds
    \/ BatchRespondsStoreDown

SpecBatch == BatchInit /\ [][BatchNext]_vars

-----------------------------------------------------------------------------
(* Batch runs among the cache operations of the router: one batch request and
   any number of listing, manual-refresh and clear-cache requests, interleaved
   at the awaits of the batch *)

FrameInit == BatchInit /\ store = <<>>

FrameGenerateArticlesRequest ==
    /\ \E useCache \in BOOLEAN, envRoute \in {EnvAllFail, EnvMixed} :
          StartBatch(MaxBatch, {}, useCache, envRoute, EnvSix)
    /\ UNCHANGED <<aggCall, lastResp, lastCreate, pureVars>>

FrameListTrendsRequest ==
    /\ \E source \in {"all", "reddit"}, fresh \in BOOLEAN, env \in {EnvAllFail, EnvMixed} :
          ListTrends(source, Null, DefaultListLimit, fresh, env)
    /\ UNCHANGED <<now, aggCall, store, run, lastCreate, pureVars>>

FrameManualFetchRequest ==
    /\ \E categories \in {{}, {"technology"}} :
          ManualFetch({"google", "twitter"}, categories, DefaultLimit, EnvMixed)
    /\ UNCHANGED <<now, aggCall, store, run, lastCreate, pureVars>>

FrameNext ==
    \/ FrameGenerateArticlesRequest
    \/ GenerationSucceeds
    \/ GenerationFails
    \/ DelayElapses
    \/ BatchResponds
    \/ BatchRespondsStoreDown
    \/ FrameListTrendsRequest
    \/ FrameManualFetchRequest
    \/ ClearCacheRequest

SpecFrame == FrameInit /\ [][FrameNext]_vars

\* C26: no step of a batch generation request changes the trend cache, also
\* when the request fetches fresh candidates; the cache is replaced by listing,
\* manual-refresh and clear-cache requests only, and no step changes its TTL
C26_BatchLeavesCacheUnchanged ==
    [][/\ (run' # run) => (trendsCache' = trendsCache)
       /\ (trendsCache' # trendsCache) => (lastResp'.op \in {"list", "fetch", "clear"})
       /\ trendsCache'.ttl = trendsCache.ttl]_vars

\* a batch request found the cache unpopulated, fetched candidates itself and
\* has answered, and the cache is unpopulated still
C26_Witness ==
    /\ run.pc = "done" /\ run.status = 200 /\ ~run.cacheWasFresh
    /\ "google" \in run.routeInvoked /\ run.fetched > 0 /\ run.articles # <<>>
    /\ trendsCache = EmptyCache /\ lastResp.op = "none"

-----------------------------------------------------------------------------
(* Properties of a batch run *)

InCachedList(t) == \E k \in 1..Len(trendsCache.data) : trendsCache.data[k] = t

\* C6: a batch run started with useCache=true while the cache is fresh invokes
\* no source adapter, and every candidate handed to the generator is an element
\* of the cached list
C6_FreshCacheMeansNoAdapter ==
    (run.pc # "idle" /\ run.useCache /\ run.cacheWasFresh) =>
        /\ run.routeInvoked \cup run.serviceInvoked = {}
        /\ \A k \in 1..Len(run.attempts) : InCachedList(run.attempts[k])

\* C8: when a generation call of a batch starts, one delay has elapsed after
\* each earlier call of the batch, failed or not, and none before the first call
C8_DelayBetweenCalls ==
    run.pc = "generating" => run.sleeps = run.i - 1

SuccessCount == Cardinality({k \in 1..Len(run.succeeded) : run.succeeded[k]})

\* C9: once the generation loop of a batch has returned, the generation
\* attempts are the selected candidates, one attempt each, in descending-score
\* order, a failed attempt aborting nothing, and the loop has returned one
\* article for each candidate that succeeded
C9_EveryCandidateAttemptedOnce ==
    (run.pc = "saving" \/ (run.pc = "done" /\ run.status = 200)) =>
        /\ run.attempts = run.selectedTrends
        /\ \A k \in 1..(Len(run.attempts) - 1) :
              run.attempts[k].trendScore >= run.attempts[k + 1].trendScore
        /\ Len(run.succeeded) = Len(run.attempts)
        /\ Len(run.articles) = SuccessCount

\* C10: the result of a batch run holds exactly one record for each candidate
\* whose generation succeeded, inserted or found with an equal title, and no
\* generated article is dropped by the persistence step
C10_OneRecordPerSuccess ==
    (run.pc = "done" /\ run.storeReachable) =>
        /\ Len(run.savedArticles) = Len(run.articles)
        /\ Len(run.articles) = SuccessCount
        /\ \A k \in 1..Len(run.outcomes) : run.outcomes[k] \in {"inserted", "existing"}
        /\ \A k \in 1..Len(run.savedArticles) :
              EqualIgnoringCase(run.savedArticles[k].title, run.articles[k].title)

\* C12: when a non-empty category filter leaves no candidate, the batch run
\* returns an empty sequence without an error, having made no generation call
\* and no createArticle call
C12_EmptyFilterMeansEmptyResult ==
    (run.pc \notin {"idle"} /\ run.status # 500
        /\ run.categories # {} /\ run.matching = 0) =>
        /\ run.pc = "done" /\ run.status = 200
        /\ run.savedArticles = <<>>
        /\ run.attempts = <<>> /\ run.succeeded = <<>>
        /\ run.outcomes = <<>>

\* candidates were fetched and the category filter removed every one of them
C12_Witness ==
    /\ run.pc = "done" /\ run.status = 200
    /\ run.categories # {} /\ run.fetched > 0 /\ run.matching = 0
    /\ run.savedArticles = <<>> /\ run.attempts = <<>>

\* number of fetched candidates that pass the category filter of the run
FilteredCount == IF run.categories # {} THEN run.matching ELSE run.fetched

\* C24: the generation loop of a batch run attempts min(maxArticles, number of
\* candidates left by the category filter) candidates, the highest-scoring ones
C24_AttemptsUpToMaxArticles ==
    (run.pc = "saving" \/ (run.pc = "done" /\ run.status = 200)) =>
        /\ Len(run.attempts) = Min2(run.maxArticles, FilteredCount)
        /\ \A k \in 1..Len(run.attempts) : run.attempts[k] = run.selectedTrends[k]

\* C28: with the default sources every candidate a batch run fetches has the
\* category 'general', so a non-empty categories list without 'general' leaves
\* no candidate: no generation call is made and the result is empty
C28_DefaultSourcesYieldOnlyGeneral ==
    (run.pc # "idle" /\ run.status # 500) =>
        /\ run.fetchedCategories \subseteq {"general"}
        /\ (run.categories # {} /\ "general" \notin run.categories) =>
              /\ run.pc = "done" /\ run.status = 200
              /\ run.selectedTrends = <<>> /\ run.attempts = <<>>
              /\ run.articles = <<>> /\ run.savedArticles = <<>>

\* a run fetched candidates, all 'general', and its three categories left none
C28_Witness ==
    /\ run.pc = "done" /\ run.status = 200
    /\ run.fetched > 0 /\ run.fetchedCategories = {"general"}
    /\ run.categories = {"technology", "business", "health"}
    /\ run.selectedTrends = <<>> /\ run.savedArticles = <<>>

\* C19: a batch run that generated at least one article while the store was
\* unreachable ends with an error to its caller, not with a successful result
C19_UnreachableStoreIsAnError ==
    (run.pc = "done" /\ ~run.storeReachable /\ Len(run.articles) >= 1) =>
        run.status = 500

-----------------------------------------------------------------------------
(* Concurrent persistence specification: the save loops of two runs of
   generateArticlesFromTrends (one started by a cron job, one by an admin
   request) interleave at the awaits of createArticle on one collection *)

\* the mutated insert: the document is written without validation or index
InsertUnchecked(st, data) ==
    [outcome |-> "inserted", returned |-> <<WithSlug(st, data)>>,
     store |-> Append(st, WithSlug(st, data))]

\* new Article(articleData) and article.save() of createArticle (lines 101-103):
\* schema validation, the pre-save hook and the unique index on slug
Insert(st, data) ==
    LET rec == WithSlug(st, data)
    IN  IF ~Validates(data)
        THEN [outcome |-> "validationError", returned |-> <<>>, store |-> st]
        ELSE IF SlugTaken(st, rec)
        THEN [outcome |-> "duplicateKey", returned |-> <<>>, store |-> st]
        ELSE [outcome |-> "inserted", returned |-> <<rec>>, store |-> Append(st, rec)]

Runs == {"cron", "admin"}

\* what generateMultipleArticles can have returned to a run
GeneratedLists ==
    {[k \in 1..Len(titles) |-> FinalArticle(titles[k], TrendOf(kRanges, 40), <<>>)] :
        titles \in SeqsUpTo({tAb, tAB, tAplusB}, MaxBatch)}

\* both runs have their generated articles and are about to enter the save loop
ConcInit ==
    /\ store \in {<<>>, StoredAb}
    /\ run \in [Runs -> {[pc |-> IF generatedArticles = <<>> THEN "done" ELSE "check",
                          k |-> 1, generatedArticles |-> generatedArticles,
                          savedArticles |-> <<>>, outcomes |-> <<>>] :
                            generatedArticles \in GeneratedLists}]
    /\ browser = FALSE
    /\ aggCall = [done |-> FALSE]
    /\ trendsCache = EmptyCache
    /\ now = 0
    /\ lastResp = [op |-> "none"]
    /\ lastCreate = [done |-> FALSE]
    /\ PureIdle

\* run r after createArticle of its k-th article ended with `outcome`, returning
\* `returned` (nothing when it threw): the save loop moves to the next article
AfterCreate(r, outcome, returned) ==
    [run[r] EXCEPT !.pc = IF run[r].k < Len(run[r].generatedArticles)
                          THEN "check" ELSE "done",
                   !.k = @ + 1,
                   !.savedArticles = @ \o returned,
                   !.outcomes = Append(@, outcome)]

\* the existence check of createArticle (lines 91-98) of run r
ExistenceCheck(r) ==
    LET data  == run[r].generatedArticles[run[r].k]
        regex == NewRegExp(data.title)
        found == FindOneByTitle(store, regex.atoms)
    IN  /\ run[r].pc = "check"
        /\ run' = [run EXCEPT ![r] =
                     IF ~regex.ok THEN AfterCreate(r, "regexError", <<>>)
                     ELSE IF found # 0 THEN AfterCreate(r, "existing", <<store[found]>>)
                     ELSE [run[r] EXCEPT !.pc = "insert"]]
        /\ UNCHANGED store

\* the insert of createArticle (lines 101-105) of run r
InsertArticle(r) ==
    LET c == Insert(store, run[r].generatedArticles[run[r].k])
    IN  /\ run[r].pc = "insert"
        /\ store' = c.store
        /\ run' = [run EXCEPT ![r] = AfterCreate(r, c.outcome, c.returned)]

ExistenceCheckStep ==
    /\ \E r \in Runs : ExistenceCheck(r)
    /\ UNCHANGED <<browser, aggCall, trendsCache, now, lastResp, lastCreate, pureVars>>

InsertStep ==
    /\ \E r \in Runs : InsertArticle(r)
    /\ UNCHANGED <<browser, aggCall, trendsCache, now, lastResp, lastCreate, pureVars>>

ConcNext == ExistenceCheckStep \/ InsertStep

SpecConc == ConcInit /\ [][ConcNext]_vars

-----------------------------------------------------------------------------
(* OpenAIService: parsing of the backend's reply and generateArticle.
   A text is the sequence of its lines (split at "\n"), a line a sequence of
   pieces: single characters, and the markers "TITLE:", "EXCERPT:", "TAGS:",
   "CONTENT:" and longer runs of text written as one piece *)

\* String.prototype.length
RECURSIVE StrLen(_)
StrLen(s) == IF s = <<>> THEN 0 ELSE Len(Head(s)) + StrLen(Tail(s))

\* the empty string, as a text
EmptyText == << <<>> >>

\* String.prototype.split(sep) for a one-character sep: the pieces between
\* separators, one more than there are separators
RECURSIVE SplitAt(_, _, _, _)
SplitAt(s, sep, k, cur) ==
    IF k > Len(s) THEN <<cur>>
    ELSE IF s[k] = sep THEN <<cur>> \o SplitAt(s, sep, k + 1, <<>>)
    ELSE SplitAt(s, sep, k + 1, Append(cur, s[k]))

Split(s, sep) == SplitAt(s, sep, 1, <<>>)

\* [...new Set(tags)]: first occurrences, in order
RECURSIVE Distinct(_, _, _)
Distinct(s, k, kept) ==
    IF k > Len(s) THEN kept
    ELSE IF \E m \in 1..Len(kept) : kept[m] = s[k] THEN Distinct(s, k + 1, kept)
    ELSE Distinct(s, k + 1, Append(kept, s[k]))

\* the text joined by "\n", as one sequence of pieces
RECURSIVE Joined(_)
Joined(text) ==
    IF Len(text) = 1 THEN text[1]
    ELSE text[1] \o <<"\n">> \o Joined(Tail(text))

\* content.split('\n\n'): the joined text cut at each pair of newlines, left to
\* right
RECURSIVE ParagraphsFrom(_, _, _)
ParagraphsFrom(s, k, cur) ==
    IF k > Len(s) THEN <<cur>>
    ELSE IF k < Len(s) /\ s[k] = "\n" /\ s[k + 1] = "\n"
         THEN <<cur>> \o ParagraphsFrom(s, k + 2, <<>>)
         ELSE ParagraphsFrom(s, k + 1, Append(cur, s[k]))

\* p.trim() is the empty string: p holds white space only
IsBlank(p) == \A k \in 1..Len(p) : p[k] \in {" ", "\n"}

\* line.replace(/^#+\s*/, ''): a leading run of "#" and the white space after it
StripHeading(line) ==
    IF line # <<>> /\ Head(line) = "#" THEN DropWhile(DropWhile(line, "#"), " ")
    ELSE line

\* the lines of the loop of fallbackParsing up to its break (lines 1138-1143)
RECURSIVE FallbackTitle(_, _)
FallbackTitle(lines, k) ==
    IF k > Len(lines) THEN <<>>
    ELSE IF Head(lines[k]) = "#" \/ StrLen(Trim(lines[k])) > 20
         THEN Trim(StripHeading(lines[k]))
         ELSE FallbackTitle(lines, k + 1)

\* words of the keyword longer than three characters
LongWords(keyword) == SelectSeq(Split(keyword, " "), LAMBDA w : Len(w) > 3)

\* fallbackParsing(content, trendData)
FallbackParsing(content, trend) ==
    LET lines      == SelectSeq(content, LAMBDA line : Trim(line) # <<>>)
        title      == FallbackTitle(lines, 1)
        paragraphs == SelectSeq(ParagraphsFrom(Joined(content), 1, <<>>),
                                LAMBDA p : ~IsBlank(p) /\ Head(p) # "#")
        excerpt    == IF paragraphs # <<>> THEN Append(paragraphs[1], "...") ELSE <<>>
        tags       == <<ToLowerCase(trend.keyword)>> \o LongWords(ToLowerCase(trend.keyword))
    IN  [title   |-> IF title # <<>> THEN title
                     ELSE trend.keyword \o <<": Latest Trends and Insights">>,
         excerpt |-> IF excerpt # <<>> THEN excerpt
                     ELSE <<"Discover the latest insights about ">> \o trend.keyword
                          \o <<" and its growing significance.">>,
         content |-> content,
         tags    |-> Distinct(tags, 1, <<>>)]

\* state of the loop of parseGeneratedContent before its first line
ParseStart ==
    [title |-> <<>>, excerpt |-> <<>>, tags |-> <<>>, articleContent |-> <<>>,
     currentSection |-> ""]

\* one iteration of the loop of parseGeneratedContent (lines 1090-1108)
ParseLine(st, line) ==
    LET trimmedLine == Trim(line)
        marker == IF trimmedLine = <<>> THEN "" ELSE Head(trimmedLine)
    IN  IF marker = "TITLE:"
        THEN [st EXCEPT !.title = Trim(Tail(trimmedLine)), !.currentSection = "title"]
        ELSE IF marker = "EXCERPT:"
        THEN [st EXCEPT !.excerpt = Trim(Tail(trimmedLine)), !.currentSection = "excerpt"]
        ELSE IF marker = "TAGS:"
        THEN [st EXCEPT !.tags = LET parts == Split(Trim(Tail(trimmedLine)), ",")
                                 IN  [k \in 1..Len(parts) |-> ToLowerCase(Trim(parts[k]))],
                        !.currentSection = "tags"]
        ELSE IF marker = "CONTENT:"
        THEN [st EXCEPT !.currentSection = "content"]
        ELSE IF st.currentSection = "content" /\ trimmedLine # <<>>
        THEN [st EXCEPT !.articleContent = Append(@, line)]
        ELSE st

RECURSIVE ParseLines(_, _, _)
ParseLines(st, content, k) ==
    IF k > Len(content) THEN st
    ELSE ParseLines(ParseLine(st, content[k]), content, k + 1)

\* a line of white space only
BlankLine(line) == Trim(line) = <<>>

RECURSIVE DropBlankHead(_)
DropBlankHead(text) ==
    IF text # <<>> /\ BlankLine(Head(text)) THEN DropBlankHead(Tail(text)) ELSE text

RECURSIVE DropBlankTail(_)
DropBlankTail(text) ==
    IF text # <<>> /\ BlankLine(text[Len(text)])
    THEN DropBlankTail(SubSeq(text, 1, Len(text) - 1)) ELSE text

\* String.prototype.trim on a text of several lines; <<>> is the empty result
TrimText(text) ==
    LET core == DropBlankTail(DropBlankHead(text))
    IN  IF core = <<>> THEN <<>>
        ELSE IF Len(core) = 1 THEN <<Trim(core[1])>>
        ELSE <<TrimLeft(core[1])>> \o SubSeq(core, 2, Len(core) - 1)
             \o <<TrimRight(core[Len(core)])>>

\* the string is empty (falsy)
IsEmptyString(text) == text = <<>> \/ text = EmptyText

\* the mutated default: no tag is derived from the keyword
NoDefaultTags(keyword) == <<>>

\* [trendData.keyword.toLowerCase()] of the returned record (line 1122)
DefaultTags(keyword) == <<ToLowerCase(keyword)>>

\* parseGeneratedContent(content, trendData); in the model a paragraph is
\* shorter than 200 characters, so substring(0, 200) keeps it whole
ParseGeneratedContent(content, trend) ==
    LET st       == ParseLines(ParseStart, content, 1)
        fallback == st.title = <<>> \/ st.excerpt = <<>> \/ st.articleContent = <<>>
        fb       == FallbackParsing(content, trend)
        title    == IF fallback /\ st.title = <<>> THEN fb.title ELSE st.title
        excerpt  == IF fallback /\ st.excerpt = <<>> THEN fb.excerpt ELSE st.excerpt
        articleContent == IF fallback /\ st.articleContent = <<>>
                          THEN fb.content ELSE st.articleContent
        tags     == IF fallback /\ st.tags = <<>> THEN fb.tags ELSE st.tags
    IN  [title   |-> IF title # <<>> THEN title
                     ELSE <<"Understanding ">> \o trend.keyword
                          \o <<": A Comprehensive Guide">>,
         excerpt |-> IF excerpt # <<>> THEN excerpt
                     ELSE <<"Explore the trending topic of ">> \o trend.keyword
                          \o <<" and discover its impact and significance.">>,
         content |-> IF ~IsEmptyString(TrimText(articleContent))
                     THEN TrimText(articleContent) ELSE content,
         tags    |-> IF tags # <<>> THEN tags ELSE DefaultTags(trend.keyword),
         slug    |-> GenerateSlug(IF title # <<>> THEN title ELSE trend.keyword)]

\* the record generateSEOMetadata falls back to (lines 1012-1018)
SeoFallback(articleData, trend) ==
    [metaTitle |-> articleData.title, metaDescription |-> articleData.excerpt,
     keywords |-> <<trend.keyword>>, ogTitle |-> articleData.title,
     ogDescription |-> articleData.excerpt]

\* one iteration of the loop of parseSEOContent (lines 1181-1192) on a line that
\* mentions `label` and has `value` between its first and second colon (<<>>
\* when there is no colon or nothing but white space after it)
ParseSEOLine(seoData, line) ==
    IF line.label = "title" /\ line.value # <<>>
    THEN [seoData EXCEPT !.metaTitle = line.value]
    ELSE IF line.label = "description" /\ line.value # <<>>
    THEN [seoData EXCEPT !.metaDescription = line.value]
    ELSE IF line.label = "keywords" /\ line.value # <<>>
    THEN [seoData EXCEPT !.keywords =
             LET parts == Split(line.value, ",")
             IN  [k \in 1..Len(parts) |-> Trim(parts[k])]]
    ELSE seoData

RECURSIVE ParseSEOLines(_, _, _)
ParseSEOLines(seoData, lines, k) ==
    IF k > Len(lines) THEN seoData
    ELSE ParseSEOLines(ParseSEOLine(seoData, lines[k]), lines, k + 1)

\* parseSEOContent(content, articleData, trendData)
ParseSEOContent(lines, articleData, trend) ==
    ParseSEOLines(SeoFallback(articleData, trend), lines, 1)

\* the mutated stage: a failed backend call is rethrown
GenerateSEOMetadataRethrow(articleData, trend, seo) ==
    [raised |-> seo.kind = "callFails",
     value  |-> IF seo.kind = "notJson"
                THEN ParseSEOContent(seo.lines, articleData, trend)
                ELSE SeoFallback(articleData, trend)]

\* generateSEOMetadata(articleData, trendData) when the second backend call
\* behaves as seo: it rejects ("callFails"), or its reply has no text ("noText":
\* JSON.parse(null) is null, reading a field of it throws, and parseSEOContent
\* throws in turn into the outer catch), or text that is no JSON ("notJson"), or
\* the JSON null ("jsonNull", handled as text), or another JSON value that is
\* not an object ("jsonScalar"), or a JSON object ("jsonObject")
GenerateSEOMetadata(articleData, trend, seo) ==
    [raised |-> FALSE,
     value  |->
        IF seo.kind \in {"callFails", "noText", "jsonScalar"}
        THEN SeoFallback(articleData, trend)
        ELSE IF seo.kind = "notJson"
        THEN ParseSEOContent(seo.lines, articleData, trend)
        ELSE IF seo.kind = "jsonNull"
        THEN ParseSEOContent(<<[label |-> "other", value |-> <<>>]>>, articleData, trend)
        ELSE [metaTitle |-> IF seo.fields.metaTitle # <<>>
                            THEN seo.fields.metaTitle ELSE articleData.title,
              metaDescription |-> IF seo.fields.metaDescription # <<>>
                                  THEN seo.fields.metaDescription
                                  ELSE articleData.excerpt,
              keywords |-> IF seo.fields.keywords.given
                           THEN seo.fields.keywords.list ELSE <<trend.keyword>>,
              ogTitle |-> IF seo.fields.ogTitle # <<>>
                          THEN seo.fields.ogTitle ELSE articleData.title,
              ogDescription |-> IF seo.fields.ogDescription # <<>>
                                THEN seo.fields.ogDescription
                                ELSE articleData.excerpt]]

\* generateArticle(trendData, options) when the first backend call behaves as
\* reply: it rejects ("error"), or its message has no content ("null":
\* content.split throws), or it has the text reply.content; the catch block
\* rethrows whatever was thrown
GenerateArticle(trend, articleOptions, reply, seo) ==
    LET articleData == ParseGeneratedContent(reply.content, trend)
        seoData     == GenerateSEOMetadata(articleData, trend, seo)
        final       == FinalArticle(articleData.title, trend, articleOptions)
    IN  IF reply.kind # "text" THEN [threw |-> TRUE, article |-> <<>>]
        ELSE IF seoData.raised THEN [threw |-> TRUE, article |-> <<>>]
        ELSE [threw   |-> FALSE,
              article |-> <<[title    |-> articleData.title,
                             excerpt  |-> articleData.excerpt,
                             content  |-> articleData.content,
                             tags     |-> articleData.tags,
                             slug     |-> articleData.slug,
                             seo      |-> seoData.value,
                             category |-> final.category,
                             source   |-> final.source]>>]

-----------------------------------------------------------------------------
(* Generation specification: one generateArticle call, for every reply of the
   generative backend over a pool of lines *)

kMarsBar == <<"M", "a", "r", "s", " ", "B", "a", "r">>
kAbba    == <<"A", "b", "b", "a", " ", "a", "b", "b", "a">>

\* keywords of the candidates handed to generateArticle
GenKeywords == {kAI, kMarsBar, kAbba}

\* lines the backend's text is made of
ReplyLines ==
    {<<>>,
     <<" ">>,
     <<"TITLE:", " ", "A", "b">>,
     <<"EXCERPT:", " ", "a">>,
     <<"TAGS:", " ", "a", ",", " ", "A">>,
     <<"CONTENT:">>,
     <<"a", " ", "b">>,
     <<"#", " ", "A">>,
     <<"an unbroken line of text">>}

\* outcomes of the first backend call: a text always has one line at least
Replies ==
    {[kind |-> k, content |-> EmptyText] : k \in {"error", "null"}}
    \cup {[kind |-> "text", content |-> content] :
            content \in SeqsUpTo(ReplyLines, MaxLines) \ {<<>>}}

NoSeoFields ==
    [metaTitle |-> <<>>, metaDescription |-> <<>>,
     keywords |-> [given |-> FALSE, list |-> <<>>],
     ogTitle |-> <<>>, ogDescription |-> <<>>]

\* lines of a reply of the second call that is no JSON
SeoLines ==
    {[label |-> "title", value |-> <<"m">>], [label |-> "title", value |-> <<>>],
     [label |-> "keywords", value |-> <<"k", ",", " ", "j">>],
     [label |-> "keywords", value |-> <<",">>],
     [label |-> "other", value |-> <<>>]}

\* outcomes of the second backend call
SeoOutcomes ==
    {[kind |-> k, lines |-> <<>>, fields |-> NoSeoFields] :
        k \in {"callFails", "noText", "jsonNull", "jsonScalar"}}
    \cup {[kind |-> "notJson", lines |-> lines, fields |-> NoSeoFields] :
            lines \in SeqsUpTo(SeoLines, 2) \ {<<>>}}
    \cup {[kind |-> "jsonObject", lines |-> <<>>,
           fields |-> [metaTitle |-> t, metaDescription |-> dsc,
                       keywords |-> kw, ogTitle |-> t, ogDescription |-> dsc]] :
            t \in {<<>>, <<"m">>}, dsc \in {<<>>, <<"d">>},
            kw \in {[given |-> FALSE, list |-> <<>>], [given |-> TRUE, list |-> <<>>],
                    [given |-> TRUE, list |-> << <<"k">> >>]}}

IdleCall(trend, reply, seo) ==
    [done |-> FALSE, trend |-> trend, reply |-> reply, seo |-> seo,
     threw |-> FALSE, article |-> <<>>]

NotGenVarsInit ==
    /\ browser = FALSE
    /\ aggCall = [done |-> FALSE]
    /\ trendsCache = EmptyCache
    /\ now = 0
    /\ lastResp = [op |-> "none"]
    /\ store = <<>>
    /\ run = [pc |-> "idle"]
    /\ lastCreate = [done |-> FALSE]
    /\ slugCall = [done |-> FALSE]
    /\ StepIdle

\* a generateArticle call is about to be made: every reply of the first call,
\* the second call failing
GenInit ==
    /\ \E keyword \in GenKeywords, reply \in Replies,
          seo \in {o \in SeoOutcomes : o.kind = "callFails"} :
          genCall = IdleCall(TrendOf(keyword, 40), reply, seo)
    /\ NotGenVarsInit

\* the replies of the first call the metadata specification looks at
SeoStageReplies ==
    {[kind |-> k, content |-> EmptyText] : k \in {"error", "null"}}
    \cup {[kind |-> "text", content |-> content] :
            content \in {EmptyText,
                         <<<<"an unbroken line of text">>>>,
                         <<<<"TITLE:", " ", "A", "b">>, <<"EXCERPT:", " ", "a">>,
                           <<"CONTENT:">>, <<"a", " ", "b">>>>}}

\* a generateArticle call is about to be made: every outcome of the second call
SeoInit ==
    /\ \E keyword \in GenKeywords, reply \in SeoStageReplies, seo \in SeoOutcomes :
          genCall = IdleCall(TrendOf(keyword, 40), reply, seo)
    /\ NotGenVarsInit

\* the call openaiService.generateArticle(trend, {}) runs to its end
CallGenerateArticle ==
    LET r == GenerateArticle(genCall.trend, <<>>, genCall.reply, genCall.seo)
    IN  /\ ~genCall.done
        /\ genCall' = [genCall EXCEPT !.done = TRUE, !.threw = r.threw,
                                      !.article = r.article]
        /\ UNCHANGED <<browser, aggCall, trendsCache, now, lastResp, store, run,
                       lastCreate, slugCall, stepVars>>

GenNext == CallGenerateArticle

SpecGen == GenInit /\ [][GenNext]_vars

SpecSeo == SeoInit /\ [][GenNext]_vars

-----------------------------------------------------------------------------
(* Properties of generateArticle *)

Returned == genCall.done /\ ~genCall.threw

\* C13: every record generateArticle returns has a non-empty title, excerpt and
\* content, and when the backend's reply is the empty text generateArticle
\* fails instead of returning a record
C13_NonEmptyFields ==
    /\ Returned =>
          /\ genCall.article[1].title # <<>>
          /\ genCall.article[1].excerpt # <<>>
          /\ ~IsEmptyString(genCall.article[1].content)
    /\ (genCall.done /\ genCall.reply.kind = "text"
          /\ IsEmptyString(genCall.reply.content)) => genCall.threw

SeoOf == genCall.article[1].seo

\* C14: the metadata stage never raises, so generateArticle succeeds whenever
\* its first stage did; when the second call fails, or returns no text, text
\* that is no JSON, or JSON that is no object, the five fields of the metadata
\* are populated; and when the call fails they are the article's own title,
\* excerpt and keyword
C14_SeoStageNeverRaises ==
    genCall.done =>
        /\ genCall.threw <=> genCall.reply.kind # "text"
        /\ (Returned /\ genCall.seo.kind # "jsonObject") =>
              /\ SeoOf.metaTitle # <<>> /\ SeoOf.metaDescription # <<>>
              /\ SeoOf.ogTitle # <<>> /\ SeoOf.ogDescription # <<>>
              /\ SeoOf.keywords # <<>>
        /\ (Returned /\ genCall.seo.kind = "callFails") =>
              SeoOf = [metaTitle |-> genCall.article[1].title,
                       metaDescription |-> genCall.article[1].excerpt,
                       keywords |-> <<genCall.trend.keyword>>,
                       ogTitle |-> genCall.article[1].title,
                       ogDescription |-> genCall.article[1].excerpt]

\* the second call failed after the first had returned a text, and the article
\* was returned with the fallback metadata
C14_Witness ==
    /\ Returned /\ genCall.seo.kind = "callFails"
    /\ SeoOf.metaTitle = genCall.article[1].title
    /\ SeoOf.keywords = <<genCall.trend.keyword>>

\* the reply has a line that starts, after white space, with the TAGS marker
HasTagsMarker(content) ==
    \E k \in 1..Len(content) :
        Trim(content[k]) # <<>> /\ Head(Trim(content[k])) = "TAGS:"

TagsOf == genCall.article[1].tags

\* C15: for every reply without a TAGS marker line, the tags of the returned
\* record are a non-empty sequence that contains the lowercased keyword
C15_TagsFromKeyword ==
    (Returned /\ ~HasTagsMarker(genCall.reply.content)) =>
        /\ TagsOf # <<>>
        /\ \E k \in 1..Len(TagsOf) : TagsOf[k] = ToLowerCase(genCall.trend.keyword)

\* the reply has the TITLE, EXCERPT and CONTENT markers with their texts and no
\* TAGS marker: the tags are the lowercased keyword alone
C15_Witness ==
    /\ Returned /\ ~HasTagsMarker(genCall.reply.content)
    /\ genCall.article[1].title = <<"A", "b">>
    /\ genCall.article[1].excerpt = <<"a">>
    /\ genCall.article[1].content = << <<"a", " ", "b">> >>
    /\ TagsOf = <<ToLowerCase(genCall.trend.keyword)>>

\* C16: in every record generateArticle returns, no tag occurs twice and every
\* tag is lowercase
C16_TagsDistinctLowercase ==
    Returned =>
        /\ \A i, j \in 1..Len(TagsOf) : i < j => TagsOf[i] # TagsOf[j]
        /\ \A i \in 1..Len(TagsOf) : TagsOf[i] = ToLowerCase(TagsOf[i])

-----------------------------------------------------------------------------
(* Slug specification: one generateSlug call on every short title *)

\* length of a title
MaxTitleLen == 4

SlugAlphabet == {"a", "B", "1", " ", "-", "+"}

SlugInit ==
    /\ \E title \in SeqsUpTo(SlugAlphabet, MaxTitleLen) :
          slugCall = [done |-> FALSE, title |-> title, slug |-> <<>>]
    /\ genCall = [done |-> FALSE]
    /\ browser = FALSE
    /\ aggCall = [done |-> FALSE]
    /\ trendsCache = EmptyCache
    /\ now = 0
    /\ lastResp = [op |-> "none"]
    /\ store = <<>>
    /\ run = [pc |-> "idle"]
    /\ lastCreate = [done |-> FALSE]
    /\ StepIdle

\* the call generateSlug(title) runs
CallGenerateSlug ==
    /\ ~slugCall.done
    /\ slugCall' = [slugCall EXCEPT !.done = TRUE, !.slug = GenerateSlug(slugCall.title)]
    /\ UNCHANGED <<browser, aggCall, trendsCache, now, lastResp, store, run,
                   lastCreate, genCall, stepVars>>

SlugNext == CallGenerateSlug

SpecSlug == SlugInit /\ [][SlugNext]_vars

\* s without its leading and trailing hyphens
RECURSIVE StripHyphens(_)
StripHyphens(s) ==
    IF s # <<>> /\ Head(s) = "-" THEN StripHyphens(Tail(s))
    ELSE IF s # <<>> /\ s[Len(s)] = "-" THEN StripHyphens(SubSeq(s, 1, Len(s) - 1))
    ELSE s

\* the derivation the claim describes: lowercase, remove every character that is
\* not a-z, 0-9, white space or hyphen, turn each white-space run into one
\* hyphen, remove leading and trailing hyphens
DescribedSlug(title) ==
    StripHyphens(ReplaceRuns(
        SelectSeq(ToLowerCase(title), LAMBDA c : c \in SlugAlnum \cup {" ", "-"}),
        " ", "-"))

\* C18: generateSlug(title) is the described derivation of the title, and it
\* neither begins nor ends with a hyphen
C18_SlugAsDescribed ==
    slugCall.done =>
        /\ slugCall.slug = DescribedSlug(slugCall.title)
        /\ slugCall.slug # <<>> =>
              (Head(slugCall.slug) # "-" /\ slugCall.slug[Len(slugCall.slug)] # "-")


-----------------------------------------------------------------------------
(* getAllTrends await by await: two calls on one TrendService, each followed
   from its start through the awaits of lines 629-659, of fetchTwitterTrends
   and of initBrowser and closeBrowser.  A call runs without interruption from
   one await to the next; candidates are abstracted to which adapter has
   contributed. *)

\* the calls that may be in progress together
CallIds == {1, 2}

Adapters == {"google", "twitter", "reddit"}

\* the options of the calls
CallOptions ==
    {[includeGoogle |-> TRUE,  includeTwitter |-> TRUE,  includeReddit |-> TRUE],
     [includeGoogle |-> TRUE,  includeTwitter |-> FALSE, includeReddit |-> TRUE],
     [includeGoogle |-> FALSE, includeTwitter |-> TRUE,  includeReddit |-> FALSE]}

\* a call that has not been made yet
NewCall(options) ==
    [pc |-> "idle", options |-> options, handle |-> 0, closing |-> 0,
     started |-> {}, contributed |-> {}, envFailed |-> {}]

CallsInit ==
    /\ calls \in [CallIds -> {NewCall(o) : o \in CallOptions}]
    /\ thisBrowser = 0
    /\ browsers = <<>>
    /\ requests = <<>>
    /\ browser = FALSE
    /\ aggCall = [done |-> FALSE]
    /\ trendsCache = EmptyCache
    /\ now = 0
    /\ lastResp = [op |-> "none"]
    /\ store = <<>>
    /\ run = [pc |-> "idle"]
    /\ lastCreate = [done |-> FALSE]
    /\ genCall = [done |-> FALSE]
    /\ slugCall = [done |-> FALSE]

\* the block of getAllTrends that runs after the block `after` (lines 629-675)
NextStage(options, after) ==
    IF after = "begin" /\ options.includeGoogle THEN "google"
    ELSE IF after \in {"begin", "google"} /\ options.includeTwitter THEN "twitter"
    ELSE IF after \in {"begin", "google", "twitter"} /\ options.includeReddit THEN "reddit"
    ELSE "finally"

\* the call runs on from the end of the block `after` to its next await: the
\* next enabled adapter is called (fetchTwitterTrends runs into initBrowser,
\* which launches a browser when this.browser is null), or the finally block
\* runs into closeBrowser, which closes this.browser unless it is null
Advance(call, after) ==
    LET stage == NextStage(call.options, after)
    IN  IF stage = "google"
        THEN [call EXCEPT !.pc = "google", !.started = @ \cup {"google"}]
        ELSE IF stage = "twitter"
        THEN IF thisBrowser = 0
             THEN [call EXCEPT !.pc = "launch", !.started = @ \cup {"twitter"}]
             ELSE [call EXCEPT !.pc = "newPage", !.handle = thisBrowser,
                               !.started = @ \cup {"twitter"}]
        ELSE IF stage = "reddit"
        THEN [call EXCEPT !.pc = "reddit", !.started = @ \cup {"reddit"}]
        ELSE IF thisBrowser = 0
             THEN [call EXCEPT !.pc = "returned"]
             ELSE [call EXCEPT !.pc = "closing", !.closing = thisBrowser]

\* the adapter's result was pushed to allTrends
Contributes(call, adapter) == [call EXCEPT !.contributed = @ \cup {adapter}]

\* the adapter's own external call failed
EnvFails(call, adapter) == [call EXCEPT !.envFailed = @ \cup {adapter}]

\* getAllTrends(options) is called
StartCall(c) ==
    /\ calls[c].pc = "idle"
    /\ calls' = [calls EXCEPT ![c] = Advance(@, "begin")]
    /\ UNCHANGED <<thisBrowser, browsers>>

\* googleTrends.dailyTrends resolves with a parsable reply
GoogleResolves(c) ==
    /\ calls[c].pc = "google"
    /\ calls' = [calls EXCEPT ![c] = Advance(Contributes(@, "google"), "google")]
    /\ UNCHANGED <<thisBrowser, browsers>>

\* googleTrends.dailyTrends rejects: fetchGoogleTrends rethrows, getAllTrends
\* catches (lines 633-635)
GoogleRejects(c) ==
    /\ calls[c].pc = "google"
    /\ calls' = [calls EXCEPT ![c] = Advance(EnvFails(@, "google"), "google")]
    /\ UNCHANGED <<thisBrowser, browsers>>

\* the request of googleTrends.dailyTrends gets no response: the call at line
\* 474 has no timeout, the await does not end
GoogleNeverResponds(c) ==
    /\ calls[c].pc = "google"
    /\ calls' = [calls EXCEPT ![c] = [EnvFails(@, "google") EXCEPT !.pc = "googleHung"]]
    /\ UNCHANGED <<thisBrowser, browsers>>

\* puppeteer.launch resolves: this.browser is assigned, initBrowser returns it
\* and browser.newPage() is called
LaunchResolves(c) ==
    /\ calls[c].pc = "launch"
    /\ browsers' = Append(browsers, "open")
    /\ thisBrowser' = Len(browsers) + 1
    /\ calls' = [calls EXCEPT ![c] = [@ EXCEPT !.pc = "newPage",
                                               !.handle = Len(browsers) + 1]]

\* puppeteer.launch rejects: fetchTwitterTrends catches and returns []
LaunchRejects(c) ==
    /\ calls[c].pc = "launch"
    /\ calls' = [calls EXCEPT ![c] = Advance(EnvFails(@, "twitter"), "twitter")]
    /\ UNCHANGED <<thisBrowser, browsers>>

\* browser.newPage() and page.setUserAgent() resolve, page.goto() is called
NewPageResolves(c) ==
    /\ calls[c].pc = "newPage"
    /\ browsers[calls[c].handle] = "open"
    /\ calls' = [calls EXCEPT ![c] = [@ EXCEPT !.pc = "goto"]]
    /\ UNCHANGED <<thisBrowser, browsers>>

\* page.goto(), page.evaluate() and page.close() resolve
PageResolves(c) ==
    /\ calls[c].pc = "goto"
    /\ browsers[calls[c].handle] = "open"
    /\ calls' = [calls EXCEPT ![c] = Advance(Contributes(@, "twitter"), "twitter")]
    /\ UNCHANGED <<thisBrowser, browsers>>

\* the site fails, or does not answer within the timeout of page.goto (line
\* 528): the rejection is caught and fetchTwitterTrends returns []
PageFailsOrTimesOut(c) ==
    /\ calls[c].pc = "goto"
    /\ browsers[calls[c].handle] = "open"
    /\ calls' = [calls EXCEPT ![c] = Advance(EnvFails(@, "twitter"), "twitter")]
    /\ UNCHANGED <<thisBrowser, browsers>>

\* the browser of the page has been closed: the pending page operation
\* rejects, fetchTwitterTrends catches and returns []
PageLost(c) ==
    /\ calls[c].pc \in {"newPage", "goto"}
    /\ browsers[calls[c].handle] = "closed"
    /\ calls' = [calls EXCEPT ![c] = Advance(@, "twitter")]
    /\ UNCHANGED <<thisBrowser, browsers>>

\* axios.get resolves with the feed
RedditResolves(c) ==
    /\ calls[c].pc = "reddit"
    /\ calls' = [calls EXCEPT ![c] = Advance(Contributes(@, "reddit"), "reddit")]
    /\ UNCHANGED <<thisBrowser, browsers>>

\* axios.get rejects: fetchRedditTrends catches and returns []
RedditRejects(c) ==
    /\ calls[c].pc = "reddit"
    /\ calls' = [calls EXCEPT ![c] = Advance(EnvFails(@, "reddit"), "reddit")]
    /\ UNCHANGED <<thisBrowser, browsers>>

\* the request of axios.get gets no response: the call at lines 577-581 sets no
\* timeout, the await does not end
RedditNeverResponds(c) ==
    /\ calls[c].pc = "reddit"
    /\ calls' = [calls EXCEPT ![c] = [EnvFails(@, "reddit") EXCEPT !.pc = "redditHung"]]
    /\ UNCHANGED <<thisBrowser, browsers>>

\* this.browser.close() resolves: this.browser = null, and the call returns
CloseResolves(c) ==
    /\ calls[c].pc = "closing"
    /\ browsers' = [browsers EXCEPT ![calls[c].closing] = "closed"]
    /\ thisBrowser' = 0
    /\ calls' = [calls EXCEPT ![c] = [@ EXCEPT !.pc = "returned"]]

\* this.browser.close() rejects: the rejection leaves the finally block
CloseRejects(c) ==
    /\ calls[c].pc = "closing"
    /\ browsers[calls[c].closing] = "open"
    /\ calls' = [calls EXCEPT ![c] = [@ EXCEPT !.pc = "raised"]]
    /\ UNCHANGED <<thisBrowser, browsers>>

notCallVars ==
    <<browser, aggCall, trendsCache, now, lastResp, store, run, lastCreate,
      genCall, slugCall, requests>>

CallStarts == (\E c \in CallIds : StartCall(c)) /\ UNCHANGED notCallVars

SearchTrendsResponds ==
    (\E c \in CallIds : GoogleResolves(c) \/ GoogleRejects(c)) /\ UNCHANGED notCallVars

SearchTrendsSilent == (\E c \in CallIds : GoogleNeverResponds(c)) /\ UNCHANGED notCallVars

BrowserLaunchSettles ==
    (\E c \in CallIds : LaunchResolves(c) \/ LaunchRejects(c)) /\ UNCHANGED notCallVars

PageOpens == (\E c \in CallIds : NewPageResolves(c)) /\ UNCHANGED notCallVars

PageSettles ==
    (\E c \in CallIds : PageResolves(c) \/ PageFailsOrTimesOut(c)) /\ UNCHANGED notCallVars

PageOfClosedBrowser == (\E c \in CallIds : PageLost(c)) /\ UNCHANGED notCallVars

LinkAggregatorResponds ==
    (\E c \in CallIds : RedditResolves(c) \/ RedditRejects(c)) /\ UNCHANGED notCallVars

LinkAggregatorSilent == (\E c \in CallIds : RedditNeverResponds(c)) /\ UNCHANGED notCallVars

BrowserCloseSettles ==
    (\E c \in CallIds : CloseResolves(c) \/ CloseRejects(c)) /\ UNCHANGED notCallVars

CallsNext ==
    \/ CallStarts
    \/ SearchTrendsResponds
    \/ SearchTrendsSilent
    \/ BrowserLaunchSettles
    \/ PageOpens
    \/ PageSettles
    \/ PageOfClosedBrowser
    \/ LinkAggregatorResponds
    \/ LinkAggregatorSilent
    \/ BrowserCloseSettles

SpecCalls == CallsInit /\ [][CallsNext]_vars

\* every promise that can settle does settle, and a call that can run does run
SpecCallsLive == SpecCalls /\ WF_vars(CallsNext)

\* the call is waiting for an adapter's external call
AwaitingAdapter(call) ==
    call.pc \in {"google", "googleHung", "launch", "newPage", "goto", "reddit", "redditHung"}

\* the adapters getAllTrends invokes with these options
EnabledAdapters(options) ==
    {a \in Adapters : \/ a = "google" /\ options.includeGoogle
                      \/ a = "twitter" /\ options.includeTwitter
                      \/ a = "reddit" /\ options.includeReddit}

\* C21: the enabled adapters of a call are invoked concurrently: while the call
\* waits for one adapter, every enabled adapter of the call has been started
C21_SlowAdapterDoesNotDelayOthers ==
    \A c \in CallIds :
        AwaitingAdapter(calls[c]) => EnabledAdapters(calls[c].options) \subseteq calls[c].started

\* the call has ended, by returning or by raising
Settled(call) == call.pc \in {"returned", "raised"}

\* C22: every getAllTrends call eventually ends, also when an adapter's
\* external call never responds
C22_EveryCallEnds ==
    \A c \in CallIds : <>Settled(calls[c])

\* C23: two concurrent calls do not interfere: an enabled adapter of a call that
\* has returned contributed unless its own external call failed, and when both
\* calls have returned every launched browser is closed
C23_ConcurrentCallsDoNotInterfere ==
    /\ \A c \in CallIds :
          calls[c].pc = "returned" =>
             (EnabledAdapters(calls[c].options) \ calls[c].envFailed)
                 \subseteq calls[c].contributed
    /\ (\A c \in CallIds : calls[c].pc = "returned") =>
          \A b \in 1..Len(browsers) : browsers[b] = "closed"


-----------------------------------------------------------------------------
(* The cache of the router await by await: GET /, POST /fetch and DELETE /cache
   requests in progress together.  A handler runs without interruption up to
   its await of getAllTrends and from there to its response; every step takes
   a minute of the clock.  lastResp holds who wrote the cache last: producer
   is the number of the request whose fetch stored the current list (0 when
   none did), clearedAt the time of the last clear-cache (0 when none). *)

\* most requests that fetch or list in one behaviour
MaxRequests == 3

RaceInit ==
    /\ trendsCache = EmptyCache
    /\ now = 1
    /\ requests = <<>>
    /\ lastResp = [op |-> "none", producer |-> 0, clearedAt |-> 0]
    /\ calls = <<>>
    /\ thisBrowser = 0
    /\ browsers = <<>>
    /\ browser = FALSE
    /\ aggCall = [done |-> FALSE]
    /\ store = <<>>
    /\ run = [pc |-> "idle"]
    /\ lastCreate = [done |-> FALSE]
    /\ genCall = [done |-> FALSE]
    /\ slugCall = [done |-> FALSE]

\* a request as its handler reaches the await of getAllTrends (or its response)
Request(kind, pc, cached) ==
    [kind |-> kind, pc |-> pc, startedAt |-> now, cached |-> cached, status |-> 0]

\* GET /api/trends arrives: answered from the cache (lines 71-82), or the
\* handler calls getAllTrends and waits (line 92)
ListArrives(fresh) ==
    /\ Len(requests) < MaxRequests
    /\ requests' = Append(requests,
                      IF ~fresh /\ CacheFresh
                      THEN [Request("list", "done", TRUE) EXCEPT !.status = 200]
                      ELSE Request("list", "fetching", FALSE))
    /\ now' = now + 1
    /\ UNCHANGED <<trendsCache, lastResp>>

\* POST /api/trends/fetch arrives: the handler calls getAllTrends and waits
\* (line 194)
FetchArrives ==
    /\ Len(requests) < MaxRequests
    /\ requests' = Append(requests, Request("fetch", "fetching", FALSE))
    /\ now' = now + 1
    /\ UNCHANGED <<trendsCache, lastResp>>

\* getAllTrends resolves for request i: the handler replaces trendsCache (lines
\* 102-106, 208-212) and responds
GetAllTrendsResolves(i, data) ==
    /\ requests[i].pc = "fetching"
    /\ trendsCache' = [populated |-> TRUE, data |-> data, timestamp |-> now,
                       ttl |-> trendsCache.ttl]
    /\ lastResp' = [lastResp EXCEPT !.op = requests[i].kind, !.producer = i]
    /\ requests' = [requests EXCEPT ![i] = [@ EXCEPT !.pc = "done", !.status = 200]]
    /\ now' = now + 1

\* getAllTrends rejects for request i: the handler answers 500 (lines 115-121,
\* 221-227)
GetAllTrendsRejects(i) ==
    /\ requests[i].pc = "fetching"
    /\ requests' = [requests EXCEPT ![i] = [@ EXCEPT !.pc = "done", !.status = 500]]
    /\ now' = now + 1
    /\ UNCHANGED <<trendsCache, lastResp>>

\* DELETE /api/trends/cache: the handler has no await before its assignment
ClearArrives ==
    /\ now <= MaxRequests
    /\ trendsCache' = [populated |-> FALSE, data |-> <<>>, timestamp |-> 0,
                       ttl |-> trendsCache.ttl]
    /\ lastResp' = [op |-> "clear", producer |-> 0, clearedAt |-> now]
    /\ now' = now + 1
    /\ UNCHANGED requests

notRaceVars ==
    <<browser, aggCall, store, run, lastCreate, genCall, slugCall, calls,
      thisBrowser, browsers>>

ListingArrives == (\E fresh \in BOOLEAN : ListArrives(fresh)) /\ UNCHANGED notRaceVars

ManualFetchArrives == FetchArrives /\ UNCHANGED notRaceVars

FetchResolves ==
    /\ \E i \in 1..Len(requests), data \in CachedLists : GetAllTrendsResolves(i, data)
    /\ UNCHANGED notRaceVars

FetchRejects == (\E i \in 1..Len(requests) : GetAllTrendsRejects(i)) /\ UNCHANGED notRaceVars

ClearCacheArrives == ClearArrives /\ UNCHANGED notRaceVars

RaceNext ==
    \/ ListingArrives
    \/ ManualFetchArrives
    \/ FetchResolves
    \/ FetchRejects
    \/ ClearCacheArrives

SpecRace == RaceInit /\ [][RaceNext]_vars

\* C29: a fetch started before a clear-cache or before another refresh and
\* completing after it does not write the cache: a populated cache was produced
\* by a request that started after the last clear, and a list is replaced only
\* by the result of a fetch that started later than the one that produced it
C29_StaleFetchNeverWritesCache ==
    [][/\ (trendsCache'.populated /\ lastResp'.clearedAt > 0) =>
             requests'[lastResp'.producer].startedAt > lastResp'.clearedAt
       /\ (/\ trendsCache.populated /\ trendsCache'.populated
           /\ lastResp'.producer # lastResp.producer) =>
             requests[lastResp'.producer].startedAt
                 > requests[lastResp.producer].startedAt]_vars

====
